---- MODULE Spec2Model ----
(***************************************************************************)
(* Model of the Data-Analytics scripts (Universidad Libre alumni reports). *)
(*                                                                         *)
(* Text is modelled character by character: a Python str is a sequence of  *)
(* one-character atoms (<<"D","E">> is 'DE'); the accented letters are the *)
(* atoms "Iacute", "iacute", "Oacute", "oacute".  Python's None and        *)
(* pandas' NaN cell are the empty sequence where the code can tell them    *)
(* from text only by pd.isna/notna; an optional integer is <<>> (None) or  *)
(* <<n>>.                                                                  *)
(*                                                                         *)
(* Each script is a specification of its own over its own variables:       *)
(*   SpecLimpios     egresados_posgrados_limpios.py                        *)
(*   SpecEgresados   egresados_posgrados.py                                *)
(*   SpecLimpiar     limpiar_csv_posgrados.py                              *)
(*   SpecExtraer     programas.py, totalxano.py (one call of               *)
(*                   extraer_programas_y_fechas)                           *)
(*   SpecTotal       totalxano.py                                          *)
(*   SpecApp         app.py                                                *)
(***************************************************************************)
EXTENDS Integers, Sequences, FiniteSets, TLC

VARIABLES
    \* egresados_posgrados_limpios.py
    pc_limpios, hay_columna_fecha, filas_bdd, fila_bdd, egresados_detalle, llamada,
    retorno,
    \* egresados_posgrados.py
    pc_egr, bdd_archivo, bdd_identificaciones, cedulas_egresados, anio_egr,
    filas_egr, programa_actual, resultados, estudiantes_vistos, candidatos,
    todos_resultados, reportes,
    \* limpiar_csv_posgrados.py
    pc_limpiar, anio_limpiar, facultad_actual, programa_codigo, programa_nombre,
    registros, filas_leidas, origen,
    \* programas.py and totalxano.py: one call of extraer_programas_y_fechas
    pc_extraer, programa_str, programas_info,
    \* totalxano.py
    pc_total, archivo_total, filas_total, registros_unicos, candidatos_total,
    indice_total, resultados_detallados, estadisticas_anio,
    estadisticas_programa, estadisticas_anio_programa,
    \* app.py
    pc_app, archivo_app, columnas_app, filas_app, cargos_directivos, leidos_app,
    vistas_app, desenlace_app, avisos_app, resultados_totales, resumen_app,
    \* app.py, totalxano.py, verificar_valores.py: the search of the header row
    pc_enc, lineas, i_enc, header_line,
    \* programas.py
    pc_prog, desenlace_prog, columnas_prog, filas_prog, unicos_prog,
    resultados_prog, est_anio_prog, est_programa_prog, est_anio_programa_prog,
    escritos_prog,
    \* the functions on the text of a program line, one call of each
    texto_entrada, llamadas_texto, codigo_egr, codigo_limpiar, nombre_egr,
    nombre_limpiar,
    \* the two procesar_archivo_posgrados (egresados_posgrados.py and
    \* limpiar_csv_posgrados.py) over one raw file
    df_crudo, pc_lector_egr, it_egr, visitas_egr, estado_egr, retorno_egr,
    pc_lector_limpiar, it_limpiar, visitas_limpiar, estado_limpiar, retorno_limpiar,
    \* the files written by the scripts
    ejecutados, escrituras

vars_limpios == <<pc_limpios, hay_columna_fecha, filas_bdd, fila_bdd,
                  egresados_detalle, llamada, retorno>>

vars_egr == <<pc_egr, bdd_archivo, bdd_identificaciones, cedulas_egresados,
              anio_egr, filas_egr, programa_actual, resultados, estudiantes_vistos, candidatos,
              todos_resultados, reportes>>

vars_limpiar == <<pc_limpiar, anio_limpiar, facultad_actual, programa_codigo,
                  programa_nombre, registros, filas_leidas, origen>>

vars_extraer == <<pc_extraer, programa_str, programas_info>>

vars_total == <<pc_total, archivo_total, filas_total, registros_unicos,
                candidatos_total, indice_total, resultados_detallados,
                estadisticas_anio, estadisticas_programa,
                estadisticas_anio_programa>>

vars_app == <<pc_app, archivo_app, columnas_app, filas_app, cargos_directivos,
              leidos_app, vistas_app, desenlace_app, avisos_app, resultados_totales,
              resumen_app>>

vars_enc == <<pc_enc, lineas, i_enc, header_line>>

vars_prog == <<pc_prog, desenlace_prog, columnas_prog, filas_prog, unicos_prog,
               resultados_prog, est_anio_prog, est_programa_prog,
               est_anio_programa_prog, escritos_prog>>

vars_texto == <<texto_entrada, llamadas_texto, codigo_egr, codigo_limpiar,
                nombre_egr, nombre_limpiar>>

vars_lect == <<df_crudo, pc_lector_egr, it_egr, visitas_egr, estado_egr, retorno_egr,
               pc_lector_limpiar, it_limpiar, visitas_limpiar, estado_limpiar,
               retorno_limpiar>>

vars_sal == <<ejecutados, escrituras>>

vars == <<vars_limpios, vars_egr, vars_limpiar, vars_extraer, vars_total, vars_app,
          vars_enc, vars_prog, vars_texto, vars_lect, vars_sal>>

\* the variables of the other scripts
otros_limpios == <<vars_egr, vars_limpiar, vars_extraer, vars_total, vars_app,
                   vars_enc, vars_prog, vars_texto,
      vars_lect, vars_sal>>
otros_egr == <<vars_limpios, vars_limpiar, vars_extraer, vars_total, vars_app,
               vars_enc, vars_prog, vars_texto,
      vars_lect, vars_sal>>
otros_limpiar == <<vars_limpios, vars_egr, vars_extraer, vars_total, vars_app,
                   vars_enc, vars_prog, vars_texto,
      vars_lect, vars_sal>>
otros_extraer == <<vars_limpios, vars_egr, vars_limpiar, vars_total, vars_app,
                   vars_enc, vars_prog, vars_texto,
      vars_lect, vars_sal>>
otros_total == <<vars_limpios, vars_egr, vars_limpiar, vars_extraer, vars_app,
                 vars_enc, vars_prog, vars_texto,
      vars_lect, vars_sal>>
otros_app == <<vars_limpios, vars_egr, vars_limpiar, vars_extraer, vars_total,
               vars_enc, vars_prog, vars_texto,
      vars_lect, vars_sal>>
otros_enc == <<vars_limpios, vars_egr, vars_limpiar, vars_extraer, vars_total,
               vars_app, vars_prog, vars_texto,
      vars_lect, vars_sal>>
otros_prog == <<vars_limpios, vars_egr, vars_limpiar, vars_extraer, vars_total,
                vars_app, vars_enc, vars_texto,
      vars_lect, vars_sal>>
otros_texto == <<vars_limpios, vars_egr, vars_limpiar, vars_extraer, vars_total,
                 vars_app, vars_enc, vars_prog,
      vars_lect, vars_sal>>
otros_lect == <<vars_limpios, vars_egr, vars_limpiar, vars_extraer, vars_total,
                vars_app, vars_enc, vars_prog, vars_texto, vars_sal>>
otros_sal == <<vars_limpios, vars_egr, vars_limpiar, vars_extraer, vars_total,
               vars_app, vars_enc, vars_prog, vars_texto, vars_lect>>

----------------------------------------------------------------------------
(* Bounds of the model                                                     *)

\* rows of the historical database read by the loader
MaxFilasBDD == 2

\* rows read from the raw postgraduate files in one run
MaxFilas == 3

----------------------------------------------------------------------------
(* Python str operations                                                   *)

LowerAlphabet == <<"a","b","c","d","e","f","g","h","i","j","k","l","m","n","o",
                   "p","q","r","s","t","u","v","w","x","y","z","iacute","oacute">>
UpperAlphabet == <<"A","B","C","D","E","F","G","H","I","J","K","L","M","N","O",
                   "P","Q","R","S","T","U","V","W","X","Y","Z","Iacute","Oacute">>
Digits == <<"0","1","2","3","4","5","6","7","8","9">>

SP == <<" ">>

Range(s) == {s[i] : i \in 1..Len(s)}

IsAlphaChar(c) == c \in Range(LowerAlphabet) \cup Range(UpperAlphabet)
IsDigitChar(c) == c \in Range(Digits)
IsSpaceChar(c) == c = " "

UpperChar(c) ==
    IF c \in Range(LowerAlphabet)
    THEN UpperAlphabet[CHOOSE i \in 1..Len(LowerAlphabet) : LowerAlphabet[i] = c]
    ELSE c

LowerChar(c) ==
    IF c \in Range(UpperAlphabet)
    THEN LowerAlphabet[CHOOSE i \in 1..Len(UpperAlphabet) : UpperAlphabet[i] = c]
    ELSE c

\* s.upper(), s.lower()
StrUpper(s) == [i \in 1..Len(s) |-> UpperChar(s[i])]
StrLower(s) == [i \in 1..Len(s) |-> LowerChar(s[i])]

\* s.lstrip(), s.rstrip(), s.strip()
RECURSIVE LStrip(_)
LStrip(s) == IF s # <<>> /\ IsSpaceChar(Head(s)) THEN LStrip(Tail(s)) ELSE s

RECURSIVE RStrip(_)
RStrip(s) ==
    IF s # <<>> /\ IsSpaceChar(s[Len(s)]) THEN RStrip(SubSeq(s, 1, Len(s) - 1)) ELSE s

Strip(s) == RStrip(LStrip(s))

\* s.startswith(p)
StartsWith(s, p) == Len(p) <= Len(s) /\ SubSeq(s, 1, Len(p)) = p

\* sub in s
Contains(sub, s) ==
    \E i \in 0..(Len(s) - Len(sub)) : SubSeq(s, i + 1, i + Len(sub)) = sub

\* s.find(sub): 0-based index of the first occurrence, -1 if none
Find(s, sub) ==
    IF Contains(sub, s)
    THEN CHOOSE i \in 0..(Len(s) - Len(sub)) :
            /\ SubSeq(s, i + 1, i + Len(sub)) = sub
            /\ \A j \in 0..(i - 1) : SubSeq(s, j + 1, j + Len(sub)) # sub
    ELSE -1

\* s.replace(old, ''), old non-empty: occurrences removed left to right
RECURSIVE Remove(_, _)
Remove(s, old) ==
    IF s = <<>> THEN <<>>
    ELSE IF StartsWith(s, old) THEN Remove(SubSeq(s, Len(old) + 1, Len(s)), old)
    ELSE <<Head(s)>> \o Remove(Tail(s), old)

\* s.split(sep), sep non-empty: always at least one part; the separators are
\* taken from left to right
RECURSIVE Split(_, _)
Split(s, sep) ==
    IF ~Contains(sep, s) THEN <<s>>
    ELSE LET i == Find(s, sep) IN
         <<SubSeq(s, 1, i)>> \o Split(SubSeq(s, i + Len(sep) + 1, Len(s)), sep)

\* s.split(): runs of whitespace separate, no empty parts
RECURSIVE SplitWsAcc(_, _)
SplitWsAcc(s, cur) ==
    IF s = <<>> THEN (IF cur = <<>> THEN <<>> ELSE <<cur>>)
    ELSE IF IsSpaceChar(Head(s))
         THEN (IF cur = <<>> THEN <<>> ELSE <<cur>>) \o SplitWsAcc(Tail(s), <<>>)
         ELSE SplitWsAcc(Tail(s), Append(cur, Head(s)))

SplitWs(s) == SplitWsAcc(s, <<>>)

\* s.isdigit(): non-empty and every character a digit
IsDigitStr(s) == s # <<>> /\ \A i \in 1..Len(s) : IsDigitChar(s[i])

\* any(c.isalpha() for c in s)
AnyAlpha(s) == \E i \in 1..Len(s) : IsAlphaChar(s[i])

DigitValue(c) == (CHOOSE i \in 1..10 : Digits[i] = c) - 1

RECURSIVE DigitsValue(_)
DigitsValue(s) ==
    IF s = <<>> THEN 0
    ELSE 10 * DigitsValue(SubSeq(s, 1, Len(s) - 1)) + DigitValue(s[Len(s)])

\* int(s): <<n>>, or <<>> where int() raises ValueError.  Surrounding
\* whitespace and one leading sign are accepted, as by Python.
ParseInt(s) ==
    LET t == Strip(s) IN
    IF IsDigitStr(t) THEN <<DigitsValue(t)>>
    ELSE IF t # <<>> /\ Head(t) \in {"-", "+"} /\ IsDigitStr(Tail(t))
         THEN <<(IF Head(t) = "-" THEN -1 ELSE 1) * DigitsValue(Tail(t))>>
    ELSE <<>>

\* str(n) for an integer n
RECURSIVE NatToStr(_)
NatToStr(n) ==
    IF n < 10 THEN <<Digits[n + 1]>>
    ELSE NatToStr(n \div 10) \o <<Digits[(n % 10) + 1]>>

IntToStr(n) == IF n < 0 THEN <<"-">> \o NatToStr(-n) ELSE NatToStr(n)

----------------------------------------------------------------------------
(* Words of the scripts                                                    *)

W_ESPECIALIZACION == <<"E", "S", "P", "E", "C", "I", "A", "L", "I", "Z", "A", "C", "I", "O", "N">>
W_MAESTRIA == <<"M", "A", "E", "S", "T", "R", "I", "A">>
W_MAESTRIA_TILDE == <<"M", "A", "E", "S", "T", "R", "Iacute", "A">>
W_DOCTORADO == <<"D", "O", "C", "T", "O", "R", "A", "D", "O">>
W_EN == <<"E", "N">>
W_nan == <<"n", "a", "n">>
W_NAN == <<"N", "A", "N">>
W_None == <<"N", "o", "n", "e">>
W_RESOLUCION == <<"R", "E", "S", "O", "L", "U", "C", "I", "O", "N">>
W_RESOLUCION_TILDE == <<"R", "E", "S", "O", "L", "U", "C", "I", "Oacute", "N">>
W_Resolucion == <<"R", "e", "s", "o", "l", "u", "c", "i", "o", "n">>
W_Resolucion_tilde == <<"R", "e", "s", "o", "l", "u", "c", "i", "oacute", "n">>
W_PENSUM == <<"P", "E", "N", "S", "U", "M">>
W_Pensum == <<"P", "e", "n", "s", "u", "m">>
W_Nombre == <<"N", "o", "m", "b", "r", "e">>
W_Nivel == <<"N", "i", "v", "e", "l">>
W_Programa == <<"P", "r", "o", "g", "r", "a", "m", "a">>
W_Periodo == <<"P", "e", "r", "i", "o", "d", "o">>
W_Facultad == <<"F", "a", "c", "u", "l", "t", "a", "d">>
W_UNIVERSIDAD == <<"U", "N", "I", "V", "E", "R", "S", "I", "D", "A", "D">>
W_Identificaci == <<"I", "d", "e", "n", "t", "i", "f", "i", "c", "a", "c", "i">>
W_Sin_Codigo == <<"S", "i", "n", "_", "C", "o", "d", "i", "g", "o">>
W_Sin_Programa == <<"S", "i", "n", "_", "P", "r", "o", "g", "r", "a", "m", "a">>
PERIODO_20211 == <<"2", "0", "2", "1", "1">>
PERIODO_20221 == <<"2", "0", "2", "2", "1">>
PERIODO_20231 == <<"2", "0", "2", "3", "1">>
PERIODO_20241 == <<"2", "0", "2", "4", "1">>
PERIODO_20251 == <<"2", "0", "2", "5", "1">>

----------------------------------------------------------------------------
(* Input vocabulary                                                        *)

NaN == <<>>
None == <<>>

\* str(v) of a cell read with dtype=str: the text, or 'nan' for a NaN cell
CellStr(v) == IF v = NaN THEN W_nan ELSE v

CED_A == <<"1", "0", "0", "0", "0", "0", "1">>
CED_B == <<"1", "0", "0", "0", "0", "0", "2">>
COD_32101 == <<"3", "2", "1", "0", "1">>
COD_34101 == <<"3", "4", "1", "0", "1">>
COD_10101 == <<"1", "0", "1", "0", "1">>
W_PENAL == <<"P", "E", "N", "A", "L">>
W_DERECHO == <<"D", "E", "R", "E", "C", "H", "O">>
FECHA_DMY == <<"1", "5", "/", "0", "6", "/", "2", "0", "1", "5">>
FECHA_YMD == <<"2", "0", "2", "1", "-", "0", "3", "-", "0", "1">>
S_2021 == <<"2", "0", "2", "1">>
S_2016 == <<"2", "0", "1", "6">>

NOM_ANA == <<"A", "N", "A", " ", "R", "U", "I", "Z">>
NOM_ANA_M == <<"A", "N", "A", " ", "M", "A", "R", "I", "A", " ", "R", "U", "I", "Z">>
NOM_LUIS == <<"L", "U", "I", "S", " ", "D", "I", "A", "Z">>
COD_EST == <<"2", "0", "2", "1", "1", "2", "3", "4">>
COD_32102 == <<"3", "2", "1", "0", "2">>
W_Identificacion == <<"I", "d", "e", "n", "t", "i", "f", "i", "c", "a", "c", "i", "oacute", "n">>

N_ESP_PENAL == W_ESPECIALIZACION \o SP \o W_EN \o SP \o W_PENAL
N_MAE_DERECHO == W_MAESTRIA_TILDE \o SP \o W_EN \o SP \o W_DERECHO

----------------------------------------------------------------------------
(* Scripts that are not running                                            *)

IdleLimpios ==
    /\ pc_limpios = "idle"
    /\ hay_columna_fecha = FALSE
    /\ filas_bdd = 0
    /\ fila_bdd = <<>>
    /\ egresados_detalle = <<>>
    /\ llamada = <<>>
    /\ retorno = <<>>

IdleEgr ==
    /\ pc_egr = "idle"
    /\ bdd_archivo = "pendiente"
    /\ bdd_identificaciones = {}
    /\ cedulas_egresados = {}
    /\ anio_egr = 0
    /\ filas_egr = 0
    /\ programa_actual = <<>>
    /\ resultados = <<>>
    /\ estudiantes_vistos = {}
    /\ candidatos = <<>>
    /\ todos_resultados = <<>>
    /\ reportes = <<>>

IdleLimpiar ==
    /\ pc_limpiar = "idle"
    /\ anio_limpiar = 0
    /\ facultad_actual = <<>>
    /\ programa_codigo = <<>>
    /\ programa_nombre = <<>>
    /\ registros = <<>>
    /\ filas_leidas = <<>>
    /\ origen = <<>>

IdleExtraer ==
    /\ pc_extraer = "idle"
    /\ programa_str = <<>>
    /\ programas_info = <<>>

IdleTotal ==
    /\ pc_total = "idle"
    /\ archivo_total = 0
    /\ filas_total = 0
    /\ registros_unicos = <<>>
    /\ candidatos_total = <<>>
    /\ indice_total = 0
    /\ resultados_detallados = <<>>
    /\ estadisticas_anio = <<>>
    /\ estadisticas_programa = <<>>
    /\ estadisticas_anio_programa = <<>>

IdleApp ==
    /\ pc_app = "idle"
    /\ archivo_app = 0
    /\ columnas_app = <<>>
    /\ filas_app = 0
    /\ cargos_directivos = <<>>
    /\ leidos_app = <<>>
    /\ vistas_app = <<>>
    /\ desenlace_app = <<>>
    /\ avisos_app = <<>>
    /\ resultados_totales = <<>>
    /\ resumen_app = <<>>

IdleEncabezado ==
    /\ pc_enc = "idle"
    /\ lineas = <<>>
    /\ i_enc = 0
    /\ header_line = 0

IdleProgramas ==
    /\ pc_prog = "idle"
    /\ desenlace_prog = "pendiente"
    /\ columnas_prog = <<>>
    /\ filas_prog = 0
    /\ unicos_prog = {}
    /\ resultados_prog = <<>>
    /\ est_anio_prog = <<>>
    /\ est_programa_prog = <<>>
    /\ est_anio_programa_prog = <<>>
    /\ escritos_prog = {}

IdleTexto ==
    /\ texto_entrada = <<>>
    /\ llamadas_texto = {}
    /\ codigo_egr = <<>>
    /\ codigo_limpiar = <<>>
    /\ nombre_egr = <<>>
    /\ nombre_limpiar = <<>>

IdleLectores ==
    /\ df_crudo = <<>>
    /\ pc_lector_egr = "idle"
    /\ it_egr = 0
    /\ visitas_egr = <<>>
    /\ estado_egr = <<>>
    /\ retorno_egr = <<>>
    /\ pc_lector_limpiar = "idle"
    /\ it_limpiar = 0
    /\ visitas_limpiar = <<>>
    /\ estado_limpiar = <<>>
    /\ retorno_limpiar = <<>>

IdleSalidas ==
    /\ ejecutados = {}
    /\ escrituras = {}

\* the readers of the raw file and the writers of reports are not running
IdleFinales == IdleLectores /\ IdleSalidas

\* the later sections' scripts are not running
IdleNuevos == IdleEncabezado /\ IdleProgramas /\ IdleTexto /\ IdleFinales

\* the scripts of the sections before the last two are not running
IdleAnteriores ==
    /\ IdleLimpios
    /\ IdleEgr
    /\ IdleLimpiar
    /\ IdleExtraer
    /\ IdleTotal
    /\ IdleApp
    /\ IdleEncabezado
    /\ IdleProgramas
    /\ IdleTexto

\* the scripts that are not running
IdleOtros == IdleExtraer /\ IdleTotal /\ IdleApp /\ IdleNuevos

----------------------------------------------------------------------------
(* egresados_posgrados_limpios.py                                          *)

\* cells of the database rows: identification, title, graduation date
BDDCedulas == {CED_A, SP \o CED_A, NaN, SP}
BDDTitulos == {N_ESP_PENAL, N_MAE_DERECHO, StrLower(W_DERECHO), NaN, SP}
\* dates that are of neither format: both separators, letters for the year,
\* two parts
FECHA_MIXTA == <<"2", "0", "1", "9", "-", "0", "6", "-", "3", "0", "/", "1">>
FECHA_LETRAS == <<"1", "5", "/", "0", "6", "/", "X", "X">>
FECHA_CORTA == <<"0", "6", "/", "2", "0", "1", "5">>
BDDFechas == {FECHA_DMY, FECHA_YMD, NaN, FECHA_MIXTA, FECHA_LETRAS, FECHA_CORTA}

\* rows of the clean postgraduate file: Cedula, Año, (Codigo_Programa, Nombre_Programa)
LimpioCedulas == {CED_A, CED_B}
LimpioAnios == {S_2021, S_2016, NaN}
LimpioProgramas ==
    { <<COD_32101, N_ESP_PENAL>>, <<COD_34101, N_MAE_DERECHO>>, <<COD_10101, W_DERECHO>> }

\* the year of a graduation date text if only the DD/MM/YYYY format were read
ExtraerAnioGradoSoloBarra(fecha_str) ==
    IF Contains(<<"/">>, fecha_str)
    THEN LET partes == Split(fecha_str, <<"/">>) IN
         IF Len(partes) = 3 THEN ParseInt(partes[Len(partes)]) ELSE None
    ELSE None

\* the year of a graduation date text
ExtraerAnioGrado(fecha_str) ==
    IF Contains(<<"/">>, fecha_str)
    THEN LET partes == Split(fecha_str, <<"/">>) IN
         IF Len(partes) = 3 THEN ParseInt(partes[Len(partes)]) ELSE None
    ELSE IF Contains(<<"-">>, fecha_str)
    THEN LET partes == Split(fecha_str, <<"-">>) IN
         IF Len(partes) = 3 THEN ParseInt(partes[1]) ELSE None
    ELSE None

\* the test of the title if a missing title were let through
TituloValidoSinNan(titulo) == titulo # <<>>

\* the title passes the test of line 66
TituloValido(titulo) == titulo # <<>> /\ StrLower(titulo) # W_nan /\ titulo # W_NAN

\* the row of the database that the loop of the loader is at; none before
\* the loop and after it
SinFila == <<>>

\* one iteration of the loader's row loop
CargarFilaDetalle(detalle, hay_fecha, c_cedula, c_titulo, c_fecha) ==
    LET cedula == Strip(CellStr(c_cedula))
        titulo == StrUpper(Strip(CellStr(c_titulo)))
        anio_grado == IF hay_fecha THEN ExtraerAnioGrado(Strip(CellStr(c_fecha))) ELSE None
        registro == <<titulo, anio_grado>>
        previos == IF cedula \in DOMAIN detalle THEN detalle[cedula] ELSE <<>>
    IN
    IF cedula = <<>> \/ StrLower(cedula) = W_nan THEN detalle
    ELSE IF ~TituloValido(titulo) THEN detalle
    ELSE [c \in DOMAIN detalle \cup {cedula} |->
            IF c = cedula
            THEN (IF registro \in Range(previos) THEN previos ELSE Append(previos, registro))
            ELSE detalle[c]]

\* <<tipo, nombre_upper>>; tipo is None when no kind of program is recognised
extraer_tipo_y_nombre_programa(codigo_programa, nombre_programa) ==
    LET nombre_upper == Strip(StrUpper(nombre_programa))
        tipo ==
            IF Contains(W_ESPECIALIZACION, nombre_upper)
               \/ StartsWith(codigo_programa, <<"3", "2">>)
            THEN W_ESPECIALIZACION
            ELSE IF Contains(W_MAESTRIA, nombre_upper)
                    \/ Contains(W_MAESTRIA_TILDE, nombre_upper)
                    \/ StartsWith(codigo_programa, <<"3", "4">>)
            THEN W_MAESTRIA
            ELSE IF Contains(W_DOCTORADO, nombre_upper) THEN W_DOCTORADO
            ELSE None
    IN <<tipo, nombre_upper>>

\* the comparison of one recorded title with the current program
es_mismo_programa(titulo, tipo_actual, nombre_actual) ==
    LET titulo_upper == Strip(StrUpper(titulo)) IN
    /\ tipo_actual # None
    /\ Contains(tipo_actual, titulo_upper)
    /\ LET nombre_en_titulo == Strip(Remove(Remove(titulo_upper, tipo_actual), W_EN))
           nombre_actual_limpio == Strip(Remove(Remove(nombre_actual, tipo_actual), W_EN))
       IN \/ Contains(nombre_en_titulo, nombre_actual_limpio)
          \/ Contains(nombre_actual_limpio, nombre_en_titulo)

\* fecha_es_anterior with an undated degree taken as earlier
fecha_es_anterior_sin_fecha(anio_grado, anio_cursando) ==
    \/ anio_grado = None
    \/ /\ ParseInt(anio_cursando) # <<>>
       /\ anio_grado[1] < ParseInt(anio_cursando)[1]

\* the date test of one recorded title
fecha_es_anterior(anio_grado, anio_cursando) ==
    /\ anio_grado # None
    /\ ParseInt(anio_cursando) # <<>>
    /\ anio_grado[1] < ParseInt(anio_cursando)[1]

\* f"{titulo} ({año_grado})"
FormatoPrevio(titulo, anio_grado) ==
    titulo \o <<" ", "(">>
           \o (IF anio_grado = None THEN W_None ELSE IntToStr(anio_grado[1]))
           \o <<")">>

RECURSIVE programas_diferentes(_, _, _, _)
programas_diferentes(titulos_con_fecha, tipo_actual, nombre_actual, anio_cursando) ==
    IF titulos_con_fecha = <<>> THEN <<>>
    ELSE LET titulo == Head(titulos_con_fecha)[1]
             anio_grado == Head(titulos_con_fecha)[2]
             resto == programas_diferentes(Tail(titulos_con_fecha), tipo_actual,
                                           nombre_actual, anio_cursando)
         IN IF ~es_mismo_programa(titulo, tipo_actual, nombre_actual)
               /\ fecha_es_anterior(anio_grado, anio_cursando)
            THEN <<FormatoPrevio(titulo, anio_grado)>> \o resto
            ELSE resto

\* <<es_egresado, programas_diferentes>>
verificar_egresado_otro_programa(cedula, anio_cursando, codigo, nombre, detalle) ==
    IF cedula \notin DOMAIN detalle THEN <<FALSE, <<>>>>
    ELSE LET tn == extraer_tipo_y_nombre_programa(codigo, nombre)
             lista == programas_diferentes(detalle[cedula], tn[1], tn[2], anio_cursando)
         IN <<Len(lista) > 0, lista>>

SinLlamada == [cedula |-> <<>>, anio |-> <<>>, codigo |-> <<>>, nombre |-> <<>>]

InitLimpios ==
    /\ IdleEgr
    /\ IdleLimpiar
    /\ IdleOtros
    /\ pc_limpios = "cargar"
    /\ hay_columna_fecha \in BOOLEAN
    /\ filas_bdd = 0
    /\ fila_bdd = SinFila
    /\ egresados_detalle = <<>>
    /\ llamada = SinLlamada
    /\ retorno = <<FALSE, <<>>>>

\* cargar_base_datos_egresados_detallada reads one more row of the database
CargarFila ==
    /\ pc_limpios = "cargar"
    /\ filas_bdd < MaxFilasBDD
    /\ \E c \in BDDCedulas, t \in BDDTitulos, f \in BDDFechas :
          /\ egresados_detalle' =
                CargarFilaDetalle(egresados_detalle, hay_columna_fecha, c, t, f)
          /\ fila_bdd' = <<c, t, f>>
    /\ filas_bdd' = filas_bdd + 1
    /\ UNCHANGED <<pc_limpios, hay_columna_fecha, llamada, retorno>>
    /\ UNCHANGED otros_limpios

\* the loader returns the dictionary
FinCarga ==
    /\ pc_limpios = "cargar"
    /\ pc_limpios' = "procesar"
    /\ fila_bdd' = SinFila
    /\ UNCHANGED <<hay_columna_fecha, filas_bdd, egresados_detalle, llamada, retorno>>
    /\ UNCHANGED otros_limpios

\* procesar_archivo_limpio calls verificar_egresado_otro_programa for a row
Verificar ==
    /\ pc_limpios \in {"procesar", "verificado"}
    /\ \E c \in LimpioCedulas, a \in LimpioAnios, p \in LimpioProgramas :
          /\ llamada' = [cedula |-> c, anio |-> a, codigo |-> p[1], nombre |-> p[2]]
          /\ retorno' = verificar_egresado_otro_programa(c, a, p[1], p[2], egresados_detalle)
    /\ pc_limpios' = "verificado"
    /\ UNCHANGED <<hay_columna_fecha, filas_bdd, fila_bdd, egresados_detalle>>
    /\ UNCHANGED otros_limpios

NextLimpios == CargarFila \/ FinCarga \/ Verificar

SpecLimpios == InitLimpios /\ [][NextLimpios]_vars

\* the degrees recorded for the cédula of the last call
GradosLlamada ==
    IF llamada.cedula \in DOMAIN egresados_detalle
    THEN egresados_detalle[llamada.cedula]
    ELSE <<>>

\* a recorded title names the program being taken
MismoTitulo(titulo, nombre_programa) ==
    Strip(StrUpper(titulo)) = Strip(StrUpper(nombre_programa))

\* C1: verificar_egresado_otro_programa returns (False, []) whenever the
\* cédula is absent from the database or every degree recorded for it is of
\* the program being taken.
C1_SoloMismoProgramaNoEsEgresado ==
    pc_limpios = "verificado" =>
        ((\A i \in 1..Len(GradosLlamada) :
              MismoTitulo(GradosLlamada[i][1], llamada.nombre))
         => retorno = <<FALSE, <<>>>>)

\* a degree the date test keeps out: no year, an unreadable year being
\* taken, or a year not before the year being taken
GradoNoAnterior(grado, anio_cursando) ==
    \/ grado[2] = None
    \/ ParseInt(anio_cursando) = <<>>
    \/ grado[2][1] >= ParseInt(anio_cursando)[1]

\* C2: every listed previous program is a degree with a known graduation
\* year strictly less than the year being taken, a degree with no year or a
\* year equal or later is never listed, and the flag is True exactly when
\* the list is non-empty.
C2_SoloGradosAnteriores ==
    pc_limpios = "verificado" =>
        LET lista == retorno[2] IN
        /\ \A k \in 1..Len(lista) :
              \E i \in 1..Len(GradosLlamada) :
                 /\ ~GradoNoAnterior(GradosLlamada[i], llamada.anio)
                 /\ lista[k] = FormatoPrevio(GradosLlamada[i][1], GradosLlamada[i][2])
        /\ \A i \in 1..Len(GradosLlamada) :
              GradoNoAnterior(GradosLlamada[i], llamada.anio)
              => FormatoPrevio(GradosLlamada[i][1], GradosLlamada[i][2]) \notin Range(lista)
        /\ retorno[1] <=> (lista # <<>>)

\* a call that lists one degree and leaves out another for its date
C2_Witness ==
    /\ pc_limpios = "verificado"
    /\ retorno[1]
    /\ Len(retorno[2]) = 1
    /\ \E i \in 1..Len(GradosLlamada) : GradosLlamada[i][2] = None
    /\ ParseInt(llamada.anio) # <<>>

\* cedula, titulo and fecha_str of a row of the database, as lines 62, 63
\* and 75 read them
CedulaDeFila(fila) == Strip(CellStr(fila[1]))
TituloDeFila(fila) == StrUpper(Strip(CellStr(fila[2])))
FechaDeFila(fila) == Strip(CellStr(fila[3]))

\* the row has a cédula and a title that are neither empty nor 'nan'
FilaAporta(fila) ==
    /\ CedulaDeFila(fila) \notin {<<>>, W_nan}
    /\ TituloDeFila(fila) \notin {<<>>, W_NAN}

\* every key is a cédula, every title is upper-cased text, no pair is repeated
DetalleBienFormado(detalle) ==
    \A c \in DOMAIN detalle :
       /\ c # <<>> /\ c # W_nan
       /\ \A i \in 1..Len(detalle[c]) :
             /\ detalle[c][i][1] # <<>>
             /\ detalle[c][i][1] = StrUpper(detalle[c][i][1])
             /\ \A j \in 1..Len(detalle[c]) : i # j => detalle[c][i] # detalle[c][j]

\* the loader has just read a row with no cédula or no title
LeeFilaQueNoAporta ==
    /\ filas_bdd' = filas_bdd + 1
    /\ ~FilaAporta(fila_bdd')

\* C19: in the dictionary of cargar_base_datos_egresados_detallada every key
\* is a non-empty cédula different from 'nan', every title is non-empty and
\* upper-cased, no list holds the same (título, año_grado) pair twice, and a
\* row with an empty or 'nan' cédula or title leaves the dictionary as it was
C19_DiccionarioSinVaciosNiDuplicados ==
    /\ [] DetalleBienFormado(egresados_detalle)
    /\ [][LeeFilaQueNoAporta => egresados_detalle' = egresados_detalle]_vars

\* a row with a title, then a row whose title is missing, which adds nothing
C19_Witness ==
    /\ filas_bdd = 2
    /\ fila_bdd # SinFila
    /\ CedulaDeFila(fila_bdd) = CED_A
    /\ TituloDeFila(fila_bdd) = W_NAN
    /\ DOMAIN egresados_detalle = {CED_A}
    /\ Len(egresados_detalle[CED_A]) = 1

\* the year as C20 states it: int of the last of exactly three '/'-parts,
\* otherwise int of the first of exactly three '-'-parts, otherwise None
AnioSegunPartes(hay_fecha, fecha_str) ==
    IF ~hay_fecha THEN None
    ELSE IF Len(Split(fecha_str, <<"/">>)) = 3
    THEN ParseInt(Split(fecha_str, <<"/">>)[3])
    ELSE IF Len(Split(fecha_str, <<"-">>)) = 3
    THEN ParseInt(Split(fecha_str, <<"-">>)[1])
    ELSE None

\* the year when the '-'-parts are looked at only in a date that holds no '/'
AnioSegunSeparador(hay_fecha, fecha_str) ==
    IF ~hay_fecha THEN None
    ELSE IF Contains(<<"/">>, fecha_str)
    THEN (IF Len(Split(fecha_str, <<"/">>)) = 3
          THEN ParseInt(Split(fecha_str, <<"/">>)[3]) ELSE None)
    ELSE IF Len(Split(fecha_str, <<"-">>)) = 3
    THEN ParseInt(Split(fecha_str, <<"-">>)[1])
    ELSE None

\* the row the loader has just read is recorded with the year anio
FilaRegistradaConAnio(anio) ==
    /\ CedulaDeFila(fila_bdd) \in DOMAIN egresados_detalle
    /\ <<TituloDeFila(fila_bdd), anio>> \in Range(egresados_detalle[CedulaDeFila(fila_bdd)])
    /\ filas_bdd = 1 =>
          egresados_detalle[CedulaDeFila(fila_bdd)] = << <<TituloDeFila(fila_bdd), anio>> >>

\* C20 as stated: a row with a cédula and a title is recorded with the year
\* int(last part) if its date has exactly three '/'-separated parts,
\* otherwise int(first part) if it has exactly three '-'-separated parts, and
\* None in every other case (a non-numeric part, no date column).
C20_AnioSegunPartesDeLaFecha ==
    (fila_bdd # SinFila /\ FilaAporta(fila_bdd))
        => FilaRegistradaConAnio(AnioSegunPartes(hay_columna_fecha, FechaDeFila(fila_bdd)))

\* C20 amended: a date that holds a '/' is read by its '/'-parts only: the
\* year is int(last part) if they are exactly three and None otherwise; a date
\* that holds no '/' gives int(first part) if it has exactly three
\* '-'-separated parts; in every other case (a non-numeric part, no date
\* column) the year is None, and the row is recorded all the same.
C20_AnioSegunSeparadorDeLaFecha ==
    (fila_bdd # SinFila /\ FilaAporta(fila_bdd))
        => FilaRegistradaConAnio(AnioSegunSeparador(hay_columna_fecha, FechaDeFila(fila_bdd)))

\* a DD/MM/YYYY row recorded with its year, then a row whose year is not a
\* number, recorded with None
C20_Witness ==
    /\ filas_bdd = 2
    /\ fila_bdd # SinFila
    /\ hay_columna_fecha
    /\ fila_bdd[3] = FECHA_LETRAS
    /\ DOMAIN egresados_detalle = {CED_A}
    /\ Len(egresados_detalle[CED_A]) = 2
    /\ egresados_detalle[CED_A][1][2] = <<2015>>
    /\ egresados_detalle[CED_A][2][2] = None

----------------------------------------------------------------------------
(* Rows of the raw postgraduate files: four cells each, NaN where empty     *)

L_PROG_PENAL == COD_32101 \o SP \o N_ESP_PENAL \o SP \o W_RESOLUCION \o SP \o <<"7">>
L_PROG_GUION == COD_34101 \o <<"-">> \o <<"2">> \o SP \o W_MAESTRIA
L_PROG_CORTO == COD_32102 \o SP \o W_ESPECIALIZACION

FILA_PROGRAMA_PENAL == <<W_Programa, L_PROG_PENAL, NaN, NaN>>
FILA_PROGRAMA_GUION == <<W_Programa, L_PROG_GUION, NaN, NaN>>
FILA_PROGRAMA_TERCERA == <<W_Nivel, NaN, L_PROG_CORTO, NaN>>
FILA_ENCABEZADO == <<W_Nombre, NaN, W_Identificacion, NaN>>
FILA_ANA == <<NOM_ANA, NaN, CED_A, COD_EST>>
FILA_ANA_M == <<NOM_ANA_M, NaN, SP \o CED_A, NaN>>
FILA_LUIS == <<NOM_LUIS, NaN, SP \o CED_B, COD_EST>>
FILA_SIN_CEDULA == <<NOM_LUIS, NaN, PERIODO_20211, NaN>>

FILA_FACULTAD == <<W_Facultad, W_DERECHO, NaN, NaN>>

FilasPosgrados ==
    { FILA_PROGRAMA_PENAL, FILA_PROGRAMA_GUION, FILA_PROGRAMA_TERCERA, FILA_ENCABEZADO,
      FILA_ANA, FILA_ANA_M, FILA_LUIS, FILA_SIN_CEDULA }

\* the least and the greatest element of a non-empty set of integers
Min(S) == CHOOSE x \in S : \A y \in S : x <= y
Max(S) == CHOOSE x \in S : \A y \in S : y <= x

----------------------------------------------------------------------------
(* egresados_posgrados.py                                                  *)

\* range(2021, 2026) of main
PrimerAnio == 2021
UltimoAnio == 2025

\* values of the identification column of the historical database
BDDIdentificaciones == {SP \o CED_B \o SP, SP \o W_nan}

\* cargar_base_datos_egresados_sin_strip: the values taken as they are
cargar_base_datos_egresados_sin_strip(columna) ==
    {c \in columna : c # <<>> /\ StrLower(c) # W_nan}

W_IDENTIFICACI == <<"I", "D", "E", "N", "T", "I", "F", "I", "C", "A", "C", "I">>
W_CEDULA == <<"C", "E", "D", "U", "L", "A">>
W_DOCUMENTO == <<"D", "O", "C", "U", "M", "E", "N", "T", "O">>
W_No_Identificacion == <<"N", "o", ".", " ", "I", "d", "e", "n", "t", "i", "f", "i", "c", "a", "c", "i", "oacute", "n">>
W_Titulo == <<"T", "i", "t", "u", "l", "o">>

\* lines 28-35: <<the first column whose name holds one of the three words>>,
\* <<>> when there is none
BuscarColumnaCedula(columnas) ==
    LET son == {i \in 1..Len(columnas) :
                   LET col_upper == Strip(StrUpper(columnas[i])) IN
                   \/ Contains(W_IDENTIFICACI, col_upper)
                   \/ Contains(W_CEDULA, col_upper)
                   \/ Contains(W_DOCUMENTO, col_upper)}
    IN IF son = {} THEN <<>> ELSE <<columnas[Min(son)]>>

\* the header rows of the historical database
EncabezadosBDD ==
    {<<W_Nombre, W_No_Identificacion, W_Titulo>>, <<W_Nombre, W_Titulo>>}

\* the set of cédulas of the database; columna holds the non-NaN values
cargar_base_datos_egresados(columna) ==
    {Strip(c) : c \in {x \in columna : Strip(x) # <<>> /\ StrLower(Strip(x)) # W_nan}}

extraer_codigo_programa(nombre_programa) ==
    IF nombre_programa = NaN THEN None
    ELSE LET partes == SplitWs(Strip(nombre_programa)) IN
         IF partes # <<>> /\ IsDigitStr(partes[1]) THEN partes[1] ELSE None

extraer_nombre_programa_limpio(nombre_programa) ==
    IF nombre_programa = NaN THEN None
    ELSE LET nombre_str == Strip(nombre_programa)
             variantes == <<W_RESOLUCION, W_RESOLUCION_TILDE, W_Resolucion, W_Resolucion_tilde>>
             halladas == {k \in 1..Len(variantes) : Contains(variantes[k], nombre_str)}
             idx_res == IF halladas = {} THEN -1
                        ELSE Find(nombre_str, variantes[Min(halladas)])
         IN IF (Contains(W_RESOLUCION, StrUpper(nombre_str))
                \/ Contains(W_RESOLUCION_TILDE, StrUpper(nombre_str)))
               /\ idx_res > 0
            THEN RStrip(Strip(SubSeq(nombre_str, 1, idx_res)))
            ELSE nombre_str

\* str(row.iloc[k]).strip() if pd.notna(...) else ''
ColumnaEgr(row, k) == IF Len(row) >= k /\ row[k] # NaN THEN Strip(row[k]) ELSE <<>>

\* a column that opens a program: at least five characters, the first five digits
EsLineaPrograma(col) == col # <<>> /\ Len(col) >= 5 /\ IsDigitStr(SubSeq(col, 1, 5))

\* a cell anywhere in the row that names a program
EsProgramaEnFila(val) ==
    /\ val # NaN
    /\ LET val_str == Strip(val) IN
       /\ Len(val_str) > 20
       /\ IsDigitStr(SubSeq(val_str, 1, 5))
       /\ \E palabra \in {W_ESPECIALIZACION, W_MAESTRIA, W_DOCTORADO} :
             Contains(palabra, StrUpper(val_str))
       /\ ~Contains(W_RESOLUCION, StrUpper(val_str))
       /\ ~Contains(W_PENSUM, StrUpper(val_str))

\* ' '.join(cells)
RECURSIVE Join(_)
Join(cells) ==
    IF cells = <<>> THEN <<>>
    ELSE IF Len(cells) = 1 THEN cells[1]
    ELSE cells[1] \o SP \o Join(Tail(cells))

EsNotNa(val) == val # NaN

\* ' '.join([str(val) for val in row if pd.notna(val)]).strip()
FilaStr(row) == Strip(Join(SelectSeq(row, EsNotNa)))

\* a cell that looks like a student's name
PareceNombre(valor) ==
    /\ valor # NaN
    /\ LET valor_str == Strip(valor) IN
       /\ Len(valor_str) > 5
       /\ AnyAlpha(valor_str)
       /\ Contains(SP, valor_str)
       /\ ~Contains(W_UNIVERSIDAD, StrUpper(valor_str))
       /\ \A palabra \in {W_Nombre, W_Nivel, W_Pensum, W_Programa, W_Periodo, W_Facultad} :
             ~Contains(palabra, valor_str)

\* a cell that looks like a cédula or a student code
PareceCedulaEgr(valor) ==
    /\ valor # NaN
    /\ LET valor_str == Strip(valor) IN
       /\ IsDigitStr(valor_str)
       /\ 6 <= Len(valor_str) /\ Len(valor_str) <= 12
       /\ valor_str \notin {PERIODO_20211, PERIODO_20221, PERIODO_20231,
                            PERIODO_20241, PERIODO_20251}

\* f"{cedula_encontrada}_{programa_actual}"
ClaveUnicaEgr(cedula, programa) ==
    cedula \o <<"_">> \o (IF programa = None THEN W_None ELSE programa)

\* the record of one student
RegistroEgr(anio, programa, nombre, cedula, cedulas) ==
    [ Anio |-> anio,
      Programa_Codigo |-> IF programa # None THEN extraer_codigo_programa(programa)
                          ELSE W_Sin_Codigo,
      Programa_Nombre |-> IF programa # None THEN extraer_nombre_programa_limpio(programa)
                          ELSE W_Sin_Programa,
      Nombre |-> nombre,
      Identificacion |-> cedula,
      Es_Egresado_ULibre |-> IF cedula \in cedulas THEN "Si" ELSE "No" ]

\* AgregarEstudianteEgr without the test of estudiantes_vistos
AgregarEstudianteSinVistos(st, anio, programa, nombre, cedula, cedulas) ==
    [st EXCEPT !.programa = programa,
               !.vistos = @ \cup {ClaveUnicaEgr(cedula, programa)},
               !.resultados = Append(@, RegistroEgr(anio, programa, nombre, cedula, cedulas))]

\* a row with a name and a cédula: recorded unless its key was seen before
AgregarEstudianteEgr(st, anio, programa, nombre, cedula, cedulas) ==
    IF ClaveUnicaEgr(cedula, programa) \in st.vistos
    THEN [st EXCEPT !.programa = programa]
    ELSE [st EXCEPT !.programa = programa,
                    !.vistos = @ \cup {ClaveUnicaEgr(cedula, programa)},
                    !.resultados = Append(@, RegistroEgr(anio, programa, nombre,
                                                         cedula, cedulas))]

\* one iteration of the row loop of procesar_archivo_posgrados;
\* st = [programa, resultados, vistos, candidatos], where candidatos is the
\* history of the rows found to hold a name and a cédula
ProcesarFilaEgr(st, row, anio, cedulas) ==
    LET primera_col == ColumnaEgr(row, 1)
        segunda_col == ColumnaEgr(row, 2)
        conPrograma == {k \in 1..Len(row) : EsProgramaEnFila(row[k])}
        programa == IF conPrograma = {} THEN st.programa
                    ELSE Strip(row[Min(conPrograma)])
        conNombre == {k \in 1..Len(row) : PareceNombre(row[k])}
        conCedula == {k \in 1..Len(row) : PareceCedulaEgr(row[k])}
    IN
    IF EsLineaPrograma(primera_col) THEN [st EXCEPT !.programa = primera_col]
    ELSE IF EsLineaPrograma(segunda_col) THEN [st EXCEPT !.programa = segunda_col]
    ELSE IF Contains(W_Nombre, FilaStr(row)) /\ Contains(W_Identificaci, FilaStr(row))
    THEN [st EXCEPT !.programa = programa]
    ELSE IF primera_col # <<>>
            /\ (Contains(W_Pensum, primera_col)
                \/ Contains(W_RESOLUCION, StrUpper(primera_col)))
    THEN [st EXCEPT !.programa = programa]
    ELSE IF conNombre # {} /\ conCedula # {}
    THEN AgregarEstudianteEgr(
             [st EXCEPT !.candidatos =
                 Append(@, [Identificacion |-> Strip(row[Min(conCedula)]),
                            programa |-> programa,
                            Nombre |-> Strip(row[Max(conNombre)])])],
             anio, programa, Strip(row[Max(conNombre)]), Strip(row[Min(conCedula)]),
             cedulas)
    ELSE [st EXCEPT !.programa = programa]

\* df.groupby('Programa_Codigo').agg(first, count, sum of 'Sí'): one row per
\* code; rows whose code is None are left out of every group by groupby
ResumenPorCodigo(df) ==
    LET codigos == {df[i].Programa_Codigo : i \in 1..Len(df)} \ {None} IN
    [c \in codigos |->
        LET grupo == {i \in 1..Len(df) : df[i].Programa_Codigo = c} IN
        [ Nombre_Programa |-> df[Min(grupo)].Programa_Nombre,
          Total_Estudiantes |-> Cardinality(grupo),
          Egresados_ULibre |->
              Cardinality({i \in grupo : df[i].Es_Egresado_ULibre = "Si"}) ]]

\* the per-year reports egresados_posgrados_<año>.csv
ReportesPorAnio(df_completo) ==
    [a \in {df_completo[i].Anio : i \in 1..Len(df_completo)} |->
        LET EsDelAnio(r) == r.Anio = a IN
        ResumenPorCodigo(SelectSeq(df_completo, EsDelAnio))]

InitEgr ==
    /\ IdleLimpios
    /\ IdleLimpiar
    /\ IdleOtros
    /\ pc_egr = "inicio"
    /\ bdd_archivo = "pendiente"
    /\ bdd_identificaciones = {}
    /\ cedulas_egresados = {}
    /\ anio_egr = PrimerAnio
    /\ filas_egr = 0
    /\ programa_actual = None
    /\ resultados = <<>>
    /\ estudiantes_vistos = {}
    /\ candidatos = <<>>
    /\ todos_resultados = <<>>
    /\ reportes = <<>>

\* main loads the database, which is read and has an identification column;
\* with no cédula loaded main prints an error and returns
CargarBDD ==
    /\ pc_egr = "inicio"
    /\ \E encabezado \in EncabezadosBDD :
          BuscarColumnaCedula(encabezado) # <<>>
    /\ \E columna \in SUBSET BDDIdentificaciones :
          /\ bdd_identificaciones' = columna
          /\ cedulas_egresados' = cargar_base_datos_egresados(columna)
    /\ bdd_archivo' = "cargada"
    /\ pc_egr' = IF cedulas_egresados' = {} THEN "error_bdd" ELSE "archivo"
    /\ UNCHANGED <<anio_egr, filas_egr, programa_actual, resultados,
                   estudiantes_vistos, candidatos, todos_resultados, reportes>>
    /\ UNCHANGED otros_egr

\* lines 37-39, 357-360: the database is read and has no identification
\* column; the loader returns set() and main prints an error and returns
BDDSinColumna ==
    /\ pc_egr = "inicio"
    /\ \E encabezado \in EncabezadosBDD :
          BuscarColumnaCedula(encabezado) = <<>>
    /\ bdd_archivo' = "sin_columna"
    /\ cedulas_egresados' = {}
    /\ pc_egr' = "error_bdd"
    /\ UNCHANGED <<bdd_identificaciones, anio_egr, filas_egr, programa_actual,
                   resultados, estudiantes_vistos, candidatos, todos_resultados,
                   reportes>>
    /\ UNCHANGED otros_egr

\* lines 21-29: read_csv raises under each of the four encodings (the file is
\* missing or cannot be decoded or parsed), every exception is swallowed, df
\* is never bound and line 29 raises UnboundLocalError, which nothing catches
BDDIlegible ==
    /\ pc_egr = "inicio"
    /\ bdd_archivo' = "ilegible"
    /\ pc_egr' = "excepcion"
    /\ UNCHANGED <<bdd_identificaciones, cedulas_egresados, anio_egr, filas_egr,
                   programa_actual, resultados, estudiantes_vistos, candidatos,
                   todos_resultados, reportes>>
    /\ UNCHANGED otros_egr

\* the file of the year does not exist
ArchivoNoEncontrado ==
    /\ pc_egr = "archivo"
    /\ anio_egr <= UltimoAnio
    /\ anio_egr' = anio_egr + 1
    /\ UNCHANGED <<pc_egr, bdd_archivo, bdd_identificaciones,
                   cedulas_egresados, filas_egr,
                   programa_actual, resultados, estudiantes_vistos, candidatos,
                   todos_resultados, reportes>>
    /\ UNCHANGED otros_egr

\* procesar_archivo_posgrados starts on the file of the year
AbrirArchivo ==
    /\ pc_egr = "archivo"
    /\ anio_egr <= UltimoAnio
    /\ pc_egr' = "filas"
    /\ programa_actual' = None
    /\ resultados' = <<>>
    /\ estudiantes_vistos' = {}
    /\ candidatos' = <<>>
    /\ UNCHANGED <<bdd_archivo, bdd_identificaciones,
                   cedulas_egresados, anio_egr, filas_egr,
                   todos_resultados, reportes>>
    /\ UNCHANGED otros_egr

\* procesar_archivo_posgrados reads one more row
ProcesarFila ==
    /\ pc_egr = "filas"
    /\ filas_egr < MaxFilas
    /\ \E row \in FilasPosgrados :
          LET st == ProcesarFilaEgr([programa |-> programa_actual,
                                     resultados |-> resultados,
                                     vistos |-> estudiantes_vistos,
                                     candidatos |-> candidatos],
                                    row, anio_egr, cedulas_egresados)
          IN /\ programa_actual' = st.programa
             /\ resultados' = st.resultados
             /\ estudiantes_vistos' = st.vistos
             /\ candidatos' = st.candidatos
    /\ filas_egr' = filas_egr + 1
    /\ UNCHANGED <<pc_egr, bdd_archivo, bdd_identificaciones,
                   cedulas_egresados, anio_egr,
                   todos_resultados, reportes>>
    /\ UNCHANGED otros_egr

\* procesar_archivo_posgrados returns and main extends todos_resultados
FinArchivo ==
    /\ pc_egr = "filas"
    /\ todos_resultados' = todos_resultados \o resultados
    /\ anio_egr' = anio_egr + 1
    /\ pc_egr' = "archivo"
    /\ UNCHANGED <<bdd_archivo, bdd_identificaciones,
                   cedulas_egresados, filas_egr, programa_actual,
                   resultados, estudiantes_vistos, candidatos, reportes>>
    /\ UNCHANGED otros_egr

\* main builds df_completo and generar_reportes writes the reports
GenerarReportes ==
    /\ pc_egr = "archivo"
    /\ anio_egr > UltimoAnio
    /\ todos_resultados # <<>>
    /\ reportes' = ReportesPorAnio(todos_resultados)
    /\ pc_egr' = "reportes"
    /\ UNCHANGED <<bdd_archivo, bdd_identificaciones,
                   cedulas_egresados, anio_egr, filas_egr,
                   programa_actual, resultados, estudiantes_vistos, candidatos,
                   todos_resultados>>
    /\ UNCHANGED otros_egr

\* no record in any file: main prints that no data was processed
SinDatos ==
    /\ pc_egr = "archivo"
    /\ anio_egr > UltimoAnio
    /\ todos_resultados = <<>>
    /\ pc_egr' = "fin"
    /\ UNCHANGED <<bdd_archivo, bdd_identificaciones,
                   cedulas_egresados, anio_egr, filas_egr,
                   programa_actual, resultados, estudiantes_vistos, candidatos,
                   todos_resultados, reportes>>
    /\ UNCHANGED otros_egr

NextEgr ==
    \/ CargarBDD
    \/ BDDSinColumna
    \/ BDDIlegible
    \/ ArchivoNoEncontrado
    \/ AbrirArchivo
    \/ ProcesarFila
    \/ FinArchivo
    \/ GenerarReportes
    \/ SinDatos

SpecEgresados == InitEgr /\ [][NextEgr]_vars

\* the candidates that are the first of their (cédula, program line), in order
RECURSIVE PrimerasApariciones(_, _)
PrimerasApariciones(cands, k) ==
    IF k > Len(cands) THEN <<>>
    ELSE (IF \E j \in 1..(k - 1) :
                /\ cands[j].Identificacion = cands[k].Identificacion
                /\ cands[j].programa = cands[k].programa
          THEN <<>>
          ELSE <<cands[k]>>)
         \o PrimerasApariciones(cands, k + 1)

\* C4: procesar_archivo_posgrados (egresados_posgrados) returns one record
\* per pair (cédula, current program line) found in the rows, and it is the
\* record of the first row of that pair.
C4_UnRegistroPorCedulaYPrograma ==
    LET primeras == PrimerasApariciones(candidatos, 1) IN
    /\ Len(resultados) = Len(primeras)
    /\ \A n \in 1..Len(resultados) :
          /\ resultados[n].Identificacion = primeras[n].Identificacion
          /\ resultados[n].Nombre = primeras[n].Nombre
          /\ resultados[n].Programa_Nombre =
                (IF primeras[n].programa = None THEN W_Sin_Programa
                 ELSE extraer_nombre_programa_limpio(primeras[n].programa))

\* a student row came again under the same program line with another name
C4_Witness ==
    /\ Len(resultados) = 1
    /\ Len(candidatos) = 2
    /\ candidatos[1].programa # None
    /\ candidatos[2].Nombre # resultados[1].Nombre

\* the cédula is one of the identification values of the database, stripped,
\* other than '' and 'nan'
EstaEnBDD(cedula) ==
    \E v \in bdd_identificaciones :
       /\ Strip(v) = cedula
       /\ Strip(v) # <<>>
       /\ StrLower(Strip(v)) # W_nan

\* C6: a student record has Es_Egresado_ULibre = 'Sí' exactly when its cédula
\* equals one of the stripped, non-empty, non-'nan' identification values of
\* the database, and 'No' otherwise.
C6_EgresadoSiCedulaEnBDD ==
    \A r \in Range(resultados) \cup Range(todos_resultados) :
       /\ r.Es_Egresado_ULibre \in {"Si", "No"}
       /\ (r.Es_Egresado_ULibre = "Si") <=> EstaEnBDD(r.Identificacion)

\* a run that has recorded an alumnus and a student who is none
C6_Witness ==
    /\ \E r \in Range(todos_resultados) : r.Es_Egresado_ULibre = "Si"
    /\ \E r \in Range(todos_resultados) : r.Es_Egresado_ULibre = "No"

\* the sum of a column of a report
RECURSIVE SumaTotal(_, _)
SumaTotal(resumen, codigos) ==
    IF codigos = {} THEN 0
    ELSE LET c == CHOOSE x \in codigos : TRUE IN
         resumen[c].Total_Estudiantes + SumaTotal(resumen, codigos \ {c})

RECURSIVE SumaEgresados(_, _)
SumaEgresados(resumen, codigos) ==
    IF codigos = {} THEN 0
    ELSE LET c == CHOOSE x \in codigos : TRUE IN
         resumen[c].Egresados_ULibre + SumaEgresados(resumen, codigos \ {c})

\* C9: in every per-year report the Total_Estudiantes summed over the program
\* rows equal the number of records of that year in the complete table, and
\* the summed Egresados_ULibre equal the number of that year's records
\* marked 'Sí'.
C9_ReportesCuadranConTabla ==
    pc_egr = "reportes" =>
        \A a \in DOMAIN reportes :
           LET delAnio == {i \in 1..Len(todos_resultados) : todos_resultados[i].Anio = a}
           IN /\ SumaTotal(reportes[a], DOMAIN reportes[a]) = Cardinality(delAnio)
              /\ SumaEgresados(reportes[a], DOMAIN reportes[a])
                    = Cardinality({i \in delAnio :
                                     todos_resultados[i].Es_Egresado_ULibre = "Si"})

----------------------------------------------------------------------------
(* limpiar_csv_posgrados.py                                                *)

W_INGENIERIA == <<"I", "N", "G", "E", "N", "I", "E", "R", "I", "A">>
L_RESOLUCION_FILA == <<"R", "e", "s", "o", "l", "u", "c", "i", "oacute", "n", " ", "7", " ", "d", "e", " ", "2", "0", "1", "0">>

\* administrative rows that hold a number of the length of a cédula
FILA_FACULTAD_ING == <<W_Facultad, SP \o W_INGENIERIA, NaN, NaN>>
FILA_PENSUM == <<W_Pensum, NaN, CED_A, NaN>>
FILA_VACIA == <<NaN, NOM_ANA, CED_A, NaN>>
FILA_RESOLUCION == <<L_RESOLUCION_FILA, NaN, CED_B, NaN>>

\* the rows of the raw file that procesar_archivo_posgrados reads
FilasLimpiar ==
    { FILA_PROGRAMA_PENAL, FILA_PROGRAMA_GUION, FILA_PROGRAMA_TERCERA, FILA_ENCABEZADO,
      FILA_ANA, FILA_ANA_M, FILA_LUIS, FILA_SIN_CEDULA, FILA_FACULTAD, FILA_FACULTAD_ING,
      FILA_PENSUM, FILA_VACIA, FILA_RESOLUCION }

\* the first token of exactly five digits, or None
extraer_codigo_programa_limpiar(texto) ==
    IF texto = NaN THEN None
    ELSE LET palabras == SplitWs(Strip(texto))
             con5 == {k \in 1..Len(palabras) :
                         IsDigitStr(palabras[k]) /\ Len(palabras[k]) = 5}
         IN IF con5 = {} THEN None ELSE palabras[Min(con5)]

\* texto_str.split(maxsplit=1) of a stripped text
SplitPrimera(texto_str) ==
    LET espacios == {k \in 1..Len(texto_str) : IsSpaceChar(texto_str[k])} IN
    IF texto_str = <<>> THEN <<>>
    ELSE IF espacios = {} THEN <<texto_str>>
    ELSE << SubSeq(texto_str, 1, Min(espacios) - 1),
            LStrip(SubSeq(texto_str, Min(espacios), Len(texto_str))) >>

\* the loop of limpiar_nombre_programa over the spellings of RESOLUCION
RECURSIVE QuitarResolucion(_, _)
QuitarResolucion(texto_str, variantes) ==
    IF variantes = <<>> THEN texto_str
    ELSE IF Contains(Head(variantes), StrUpper(texto_str))
            /\ Find(StrUpper(texto_str), StrUpper(Head(variantes))) > 0
    THEN Strip(SubSeq(texto_str, 1, Find(StrUpper(texto_str), StrUpper(Head(variantes)))))
    ELSE QuitarResolucion(texto_str, Tail(variantes))

limpiar_nombre_programa(texto) ==
    IF texto = NaN THEN <<>>
    ELSE LET palabras == SplitPrimera(Strip(texto))
             sin_codigo == IF Len(palabras) > 1 /\ IsDigitStr(palabras[1])
                              /\ Len(palabras[1]) = 5
                           THEN palabras[2]
                           ELSE Strip(texto)
         IN Strip(QuitarResolucion(sin_codigo,
                <<W_RESOLUCION, W_RESOLUCION_TILDE, W_Resolucion, W_Resolucion_tilde>>))

\* str(valor).strip() of a cell after row.fillna('')
CeldaLimpiar(row, k) == IF Len(row) >= k THEN Strip(row[k]) ELSE <<>>

\* EsNumeroLargo on the cell as it is read, without strip()
EsNumeroLargoSinStrip(valor) == IsDigitStr(valor) /\ 6 <= Len(valor) /\ Len(valor) <= 12

\* a cell taken for a cédula or a student code: only digits, 6 to 12 of them
EsNumeroLargo(valor) == IsDigitStr(Strip(valor)) /\ 6 <= Len(Strip(valor)) /\ Len(Strip(valor)) <= 12

\* a cell taken for the group: only digits, 1 to 3 of them
EsGrupo(valor) == IsDigitStr(Strip(valor)) /\ 1 <= Len(Strip(valor)) /\ Len(Strip(valor)) <= 3

\* the row passes the tests of lines 77-105 and is scanned for a cédula
EsFilaDeEstudiante(row) ==
    LET primera_col == CeldaLimpiar(row, 1) IN
    /\ primera_col \notin {W_Facultad, W_Programa, W_Pensum, W_Nivel, W_Nombre, <<>>}
    /\ ~Contains(W_RESOLUCION, StrUpper(primera_col))
    /\ ~Contains(W_RESOLUCION_TILDE, StrUpper(primera_col))
    /\ Len(primera_col) > 5
    /\ AnyAlpha(primera_col)
    /\ StrUpper(primera_col) \notin
          {StrUpper(W_Nivel), StrUpper(W_Nombre), StrUpper(W_Facultad),
           StrUpper(W_Programa), W_PENSUM}

\* x or ''
OVacio(x) == IF x = None THEN <<>> ELSE x

\* the record of a student row; None if the row holds no cédula
RegistroLimpiar(st, row, anio) ==
    LET largos == {k \in 1..Len(row) : EsNumeroLargo(row[k])}
        grupos == {k \in 1..Len(row) : EsGrupo(row[k])}
    IN IF largos = {} THEN None
       ELSE [ Anio |-> anio,
              Facultad |-> st.facultad,
              Codigo_Programa |-> OVacio(st.codigo),
              Nombre_Programa |-> OVacio(st.nombre),
              Nombre_Estudiante |-> CeldaLimpiar(row, 1),
              Cedula |-> Strip(row[Min(largos)]),
              Codigo_Estudiante |->
                  IF largos \ {Min(largos)} = {} THEN <<>>
                  ELSE Strip(row[Min(largos \ {Min(largos)})]),
              Grupo |-> IF grupos = {} THEN <<>> ELSE Strip(row[Max(grupos)]) ]

\* facultad_actual after a 'Facultad' row if only the first such row counted
FacultadTrasFilaPrimera(facultad, segunda_col) ==
    IF facultad = <<>> THEN segunda_col ELSE facultad

\* facultad_actual after a 'Facultad' row: facultad_actual = segunda_col
FacultadTrasFila(facultad, segunda_col) == segunda_col

\* one iteration of the row loop of procesar_archivo_posgrados;
\* st = [facultad, codigo, nombre, registros, origen], where origen[n] is the
\* number of the row that registros[n] was made from; n_fila is the row's number
ProcesarFilaLimpiar(st, row, anio, n_fila) ==
    LET primera_col == CeldaLimpiar(row, 1)
        segunda_col == CeldaLimpiar(row, 2)
    IN
    IF primera_col = W_Facultad
    THEN [st EXCEPT !.facultad = FacultadTrasFila(st.facultad, segunda_col)]
    ELSE IF primera_col = W_Programa
    THEN [st EXCEPT !.codigo = extraer_codigo_programa_limpiar(segunda_col),
                    !.nombre = limpiar_nombre_programa(segunda_col)]
    ELSE IF ~EsFilaDeEstudiante(row) THEN st
    ELSE IF RegistroLimpiar(st, row, anio) = None THEN st
    ELSE [st EXCEPT !.registros = Append(@, RegistroLimpiar(st, row, anio)),
                    !.origen = Append(@, n_fila)]

\* the years of the files that main hands to procesar_archivo_posgrados
AniosLimpiar == PrimerAnio..UltimoAnio

InitLimpiar ==
    /\ IdleLimpios
    /\ IdleEgr
    /\ IdleOtros
    /\ pc_limpiar = "filas"
    /\ anio_limpiar \in AniosLimpiar
    /\ facultad_actual = <<>>
    /\ programa_codigo = <<>>
    /\ programa_nombre = <<>>
    /\ registros = <<>>
    /\ filas_leidas = <<>>
    /\ origen = <<>>

\* procesar_archivo_posgrados reads one more row
LeerFilaLimpiar ==
    /\ pc_limpiar = "filas"
    /\ Len(filas_leidas) < MaxFilas
    /\ \E row \in FilasLimpiar :
          LET st == ProcesarFilaLimpiar([facultad |-> facultad_actual,
                                         codigo |-> programa_codigo,
                                         nombre |-> programa_nombre,
                                         registros |-> registros,
                                         origen |-> origen],
                                        row, anio_limpiar, Len(filas_leidas) + 1)
          IN /\ facultad_actual' = st.facultad
             /\ programa_codigo' = st.codigo
             /\ programa_nombre' = st.nombre
             /\ registros' = st.registros
             /\ origen' = st.origen
             /\ filas_leidas' = Append(filas_leidas, row)
    /\ UNCHANGED <<pc_limpiar, anio_limpiar>>
    /\ UNCHANGED otros_limpiar

\* the row loop ends and procesar_archivo_posgrados returns registros
FinLimpiar ==
    /\ pc_limpiar = "filas"
    /\ pc_limpiar' = "fin"
    /\ UNCHANGED <<anio_limpiar, facultad_actual, programa_codigo, programa_nombre,
                   registros, filas_leidas, origen>>
    /\ UNCHANGED otros_limpiar

NextLimpiar == LeerFilaLimpiar \/ FinLimpiar

SpecLimpiar == InitLimpiar /\ [][NextLimpiar]_vars

\* a text of 6 to 12 characters, all of them digits
SoloDigitos6a12(texto) ==
    /\ 6 <= Len(texto) /\ Len(texto) <= 12
    /\ \A i \in 1..Len(texto) : texto[i] \in Range(Digits)

\* the second least element of a set of integers with two elements or more
Segundo(S) == Min(S \ {Min(S)})

\* C7 as stated: every emitted record has Cedula equal to the first cell of
\* its row that consists only of digits and has length 6 to 12,
\* Codigo_Estudiante equal to the second such cell or '' if there is none, and
\* no record is emitted for a row that has no such cell.
C7_CedulaEsPrimeraCeldaNumerica ==
    \A n \in 1..Len(registros) :
       LET row == filas_leidas[origen[n]]
           celdas == {k \in 1..Len(row) : SoloDigitos6a12(row[k])}
       IN /\ celdas # {}
          /\ registros[n].Cedula = row[Min(celdas)]
          /\ registros[n].Codigo_Estudiante =
                (IF Cardinality(celdas) >= 2 THEN row[Segundo(celdas)] ELSE <<>>)

\* C7 amended: the cells are read without their surrounding whitespace: Cedula
\* is the stripped text of the first cell whose stripped text consists only
\* of digits and has length 6 to 12, Codigo_Estudiante the stripped text of
\* the second such cell or '', and a row with no such cell emits no record.
C7_CedulaEsPrimeraCeldaNumericaRecortada ==
    \A n \in 1..Len(registros) :
       LET row == filas_leidas[origen[n]]
           celdas == {k \in 1..Len(row) : SoloDigitos6a12(Strip(row[k]))}
       IN /\ celdas # {}
          /\ registros[n].Cedula = Strip(row[Min(celdas)])
          /\ registros[n].Codigo_Estudiante =
                (IF Cardinality(celdas) >= 2 THEN Strip(row[Segundo(celdas)]) ELSE <<>>)

\* three rows read: one gave a record with a student code, one a record
\* without, one held no cédula and gave none
C7_Witness ==
    /\ Len(filas_leidas) = 3
    /\ Len(registros) = 2
    /\ registros[1].Codigo_Estudiante # <<>>
    /\ registros[2].Codigo_Estudiante = <<>>
    /\ FILA_SIN_CEDULA \in Range(filas_leidas)

\* 'RESOLUCION' or 'RESOLUCIÓN' occurs in the cell in some letter case
MencionaResolucionFila(celda) ==
    Contains(W_RESOLUCION, StrUpper(celda)) \/ Contains(W_RESOLUCION_TILDE, StrUpper(celda))

\* the rows before row o whose first cell is the label
FilasConEtiqueta(etiqueta, o) ==
    {k \in 1..(o - 1) : CeldaLimpiar(filas_leidas[k], 1) = etiqueta}

\* the second cell of the most recent row before row o with the label, or ''
\* if there is none
UltimaCeldaConEtiqueta(etiqueta, o) ==
    IF FilasConEtiqueta(etiqueta, o) = {} THEN <<>>
    ELSE CeldaLimpiar(filas_leidas[Max(FilasConEtiqueta(etiqueta, o))], 2)

\* a row that is no student's: a label, an empty first cell or a resolution
EsFilaAdministrativa(row) ==
    \/ CeldaLimpiar(row, 1) \in
          {W_Facultad, W_Programa, W_Pensum, W_Nivel, W_Nombre, <<>>}
    \/ MencionaResolucionFila(CeldaLimpiar(row, 1))

\* C18: every record carries the Facultad of the most recent 'Facultad' row
\* before its own row and the code and the cleaned name of the most recent
\* 'Programa' row before it, '' where there is no such row; no record comes
\* from a 'Facultad', 'Programa', 'Pensum', 'Nivel', 'Nombre', empty-first-cell
\* or resolution row
C18_RegistroLlevaUltimaFacultadYPrograma ==
    \A n \in 1..Len(registros) :
       LET o == origen[n]
           programa == UltimaCeldaConEtiqueta(W_Programa, o)
       IN /\ registros[n].Facultad = UltimaCeldaConEtiqueta(W_Facultad, o)
          /\ registros[n].Codigo_Programa =
                (IF FilasConEtiqueta(W_Programa, o) = {} THEN <<>>
                 ELSE OVacio(extraer_codigo_programa_limpiar(programa)))
          /\ registros[n].Nombre_Programa =
                (IF FilasConEtiqueta(W_Programa, o) = {} THEN <<>>
                 ELSE limpiar_nombre_programa(programa))
          /\ ~EsFilaAdministrativa(filas_leidas[o])

\* two 'Facultad' rows and then a student's row, whose record carries the
\* second faculty
C18_Witness ==
    /\ Len(filas_leidas) = 3
    /\ filas_leidas[1] = FILA_FACULTAD
    /\ filas_leidas[2] = FILA_FACULTAD_ING
    /\ Len(registros) = 1
    /\ origen[1] = 3
    /\ registros[1].Facultad = W_INGENIERIA

\* a program row, a resolution row holding a cédula, and a student's row: one
\* record, from the third row, with the program of the first
C18_WitnessPrograma ==
    /\ Len(filas_leidas) = 3
    /\ filas_leidas[1] = FILA_PROGRAMA_PENAL
    /\ filas_leidas[2] \in {FILA_RESOLUCION, FILA_PENSUM, FILA_VACIA}
    /\ Len(registros) = 1
    /\ origen[1] = 3
    /\ registros[1].Codigo_Programa = COD_32101

----------------------------------------------------------------------------
(* programas.py, totalxano.py: extraer_programas_y_fechas                  *)

\* the cell that pandas reads for an empty field (float nan), one atom that
\* is no character; str() of it is 'nan'
NaNCelda == <<"NaN">>

\* pd.isna(x) for a scalar cell
EsNa(x) == x = NaNCelda

\* str(x) for a cell
StrCelda(x) == IF EsNa(x) THEN W_nan ELSE x

P_DERECHO_2021 == <<"D", "E", "R", "E", "C", "H", "O", "(", " ", "P", "E", "R", "E", "I", "R", "A", " ", ")", "(", " ", "2", "0", "2", "1", "-", "0", "3", "-", "0", "1", " ", ")">>
P_MAESTRIA_2025 == <<"M", "A", "E", "S", "T", "R", "I", "A", " ", "E", "N", " ", "D", "E", "R", "E", "C", "H", "O", "(", " ", "P", "E", "R", "E", "I", "R", "A", " ", ")", "(", "2", "0", "2", "5", "-", "1", "2", "-", "0", "5", ")">>
P_DERECHO_2020 == <<"D", "E", "R", "E", "C", "H", "O", "(", " ", "P", "E", "R", "E", "I", "R", "A", " ", ")", "(", " ", "2", "0", "2", "0", "-", "1", "2", "-", "0", "1", " ", ")">>
P_DERECHO_2026 == <<"D", "E", "R", "E", "C", "H", "O", "(", " ", "P", "E", "R", "E", "I", "R", "A", " ", ")", "(", " ", "2", "0", "2", "6", "-", "0", "1", "-", "1", "5", " ", ")">>
P_DOS_FECHAS == <<"D", "E", "R", "E", "C", "H", "O", "(", " ", "2", "0", "1", "9", "-", "0", "1", "-", "0", "1", " ", ")", "(", " ", "2", "0", "2", "2", "-", "0", "6", "-", "3", "0", " ", ")">>
P_DOS_FECHAS_INV == <<"D", "E", "R", "E", "C", "H", "O", "(", " ", "2", "0", "2", "2", "-", "0", "6", "-", "3", "0", " ", ")", "(", " ", "2", "0", "1", "9", "-", "0", "1", "-", "0", "1", " ", ")">>
P_SIN_FECHA == <<"D", "E", "R", "E", "C", "H", "O", "(", " ", "P", "E", "R", "E", "I", "R", "A", " ", ")">>
P_SIN_NOMBRE == <<"(", " ", "2", "0", "2", "3", "-", "0", "1", "-", "0", "1", " ", ")">>
P_FECHA_MAL == <<"D", "E", "R", "E", "C", "H", "O", "(", " ", "2", "0", "2", "4", "-", "1", "-", "0", "1", " ", ")">>
SEP_PROGRAMAS == <<" ", "-", " ">>

\* the position after the run of whitespace that starts at i (\s*)
RECURSIVE SaltarEspacios(_, _)
SaltarEspacios(s, i) ==
    IF i <= Len(s) /\ IsSpaceChar(s[i]) THEN SaltarEspacios(s, i + 1) ELSE i

SinCoincidencia == [fin |-> 0, anio |-> <<>>, mes |-> <<>>, dia |-> <<>>]

\* patron_fecha matched at position i of s: the three groups and the
\* position of the closing parenthesis, or fin = 0 when it does not match
CoincideFecha(s, i) ==
    IF i > Len(s) \/ s[i] # "(" THEN SinCoincidencia
    ELSE LET j == SaltarEspacios(s, i + 1) IN
         IF j + 9 > Len(s) THEN SinCoincidencia
         ELSE IF /\ \A d \in {0, 1, 2, 3, 5, 6, 8, 9} : IsDigitChar(s[j + d])
                 /\ s[j + 4] = "-"
                 /\ s[j + 7] = "-"
              THEN LET k == SaltarEspacios(s, j + 10) IN
                   IF k <= Len(s) /\ s[k] = ")"
                   THEN [fin |-> k, anio |-> SubSeq(s, j, j + 3),
                         mes |-> SubSeq(s, j + 5, j + 6),
                         dia |-> SubSeq(s, j + 8, j + 9)]
                   ELSE SinCoincidencia
              ELSE SinCoincidencia

\* re.findall(patron_fecha, s) from position i on: the matches from left to
\* right, none overlapping
RECURSIVE FindAllFecha(_, _)
FindAllFecha(s, i) ==
    LET abre == {p \in i..Len(s) : s[p] = "("} IN
    IF abre = {} THEN <<>>
    ELSE LET m == CoincideFecha(s, Min(abre)) IN
         IF m.fin > 0 THEN <<m>> \o FindAllFecha(s, m.fin + 1)
         ELSE FindAllFecha(s, Min(abre) + 1)

\* re.match(r'^([^(]+)', parte): <<group 1>>, or <<>> when there is no match
MatchPrograma(parte) ==
    LET abre == {i \in 1..Len(parte) : parte[i] = "("}
        hasta == IF abre = {} THEN Len(parte) ELSE Min(abre) - 1
    IN IF hasta = 0 THEN <<>> ELSE <<SubSeq(parte, 1, hasta)>>

\* every year passes: the test of line 32 left out
EnRangoDeGradoSinFiltro(anio) == TRUE

\* 2021 <= año <= 2025
EnRangoDeGrado(anio) == 2021 <= anio /\ anio <= 2025

\* what one part of the cell adds to programas_info
ProgramaDeParte(parte) ==
    LET matches_fecha == FindAllFecha(parte, 1) IN
    IF matches_fecha = <<>> THEN <<>>
    ELSE LET ultima == matches_fecha[Len(matches_fecha)]
             anio == DigitsValue(ultima.anio)
             match_programa == MatchPrograma(parte)
         IN IF EnRangoDeGrado(anio) /\ match_programa # <<>>
            THEN <<[programa |-> Strip(match_programa[1]),
                    anio |-> anio,
                    fecha_completa |-> IntToStr(anio) \o <<"-">> \o ultima.mes
                                          \o <<"-">> \o ultima.dia]>>
            ELSE <<>>

RECURSIVE ProgramasDePartes(_)
ProgramasDePartes(partes) ==
    IF partes = <<>> THEN <<>>
    ELSE ProgramaDeParte(Head(partes)) \o ProgramasDePartes(Tail(partes))

extraer_programas_y_fechas(celda) ==
    IF EsNa(celda) \/ celda = <<>> THEN <<>>
    ELSE ProgramasDePartes(Split(StrCelda(celda), SEP_PROGRAMAS))

\* programs named in one cell of the column PROGRAMA(S)
MaxPartes == 2

\* the texts of one program in the column PROGRAMA(S)
PartesPrograma ==
    {P_DERECHO_2021, P_MAESTRIA_2025, P_DERECHO_2020, P_DERECHO_2026, P_DOS_FECHAS,
     P_DOS_FECHAS_INV, P_SIN_FECHA, P_SIN_NOMBRE, P_FECHA_MAL}

\* the cells made of n programs joined by ' - '
RECURSIVE CeldasDePartes(_)
CeldasDePartes(n) ==
    IF n = 1 THEN PartesPrograma
    ELSE {c \o SEP_PROGRAMAS \o q : c \in CeldasDePartes(n - 1), q \in PartesPrograma}

\* the values of programa_str
CeldasPrograma ==
    {NaNCelda, <<>>} \cup UNION {CeldasDePartes(n) : n \in 1..MaxPartes}

InitExtraer ==
    /\ pc_extraer = "llamada"
    /\ programa_str \in CeldasPrograma
    /\ programas_info = <<>>
    /\ IdleLimpios
    /\ IdleEgr
    /\ IdleLimpiar
    /\ IdleTotal
    /\ IdleApp
    /\ IdleNuevos

\* the call returns
Extraer ==
    /\ pc_extraer = "llamada"
    /\ programas_info' = extraer_programas_y_fechas(programa_str)
    /\ pc_extraer' = "retorno"
    /\ UNCHANGED programa_str
    /\ UNCHANGED otros_extraer

NextExtraer == Extraer

SpecExtraer == InitExtraer /\ [][NextExtraer]_vars

\* C5: every entry of the list that extraer_programas_y_fechas returns has
\* its year between 2021 and 2025, and for a NaN or an empty input the list
\* is empty.
C5_SoloGradosEntre2021y2025 ==
    pc_extraer = "retorno" =>
        /\ \A i \in 1..Len(programas_info) :
              2021 <= programas_info[i].anio /\ programas_info[i].anio <= 2025
        /\ (programa_str \in {NaNCelda, <<>>} => programas_info = <<>>)

\* a cell with a program of 2020 and one of 2025 returned the one of 2025
C5_Witness ==
    /\ pc_extraer = "retorno"
    /\ programa_str = P_DERECHO_2020 \o SEP_PROGRAMAS \o P_MAESTRIA_2025
    /\ Len(programas_info) = 1
    /\ programas_info[1].anio = 2025

----------------------------------------------------------------------------
(* totalxano.py: analizar_todos_egresados                                  *)

\* survey rows read in one run, over both files
MaxEncuestas == 3

F_2023 == <<"2", "0", "2", "3", "-", "0", "5", "-", "0", "2">>
F_2024 == <<"2", "0", "2", "4", "-", "0", "1", "-", "1", "0">>
F_SIN_DATO == <<"s", "i", "n", " ", "d", "a", "t", "o">>
W_Doc_ == <<"D", "o", "c", "_">>
W_PREGRADO == <<"P", "R", "E", "G", "R", "A", "D", "O">>
W_ESPECIALIZACION_TILDE == <<"E", "S", "P", "E", "C", "I", "A", "L", "I", "Z", "A", "C", "I", "Oacute", "N">>
NOM_ANA_T == <<"A", "N", "A">>
APE_RUIZ == <<"R", "U", "I", "Z">>
NOM_LUIS_T == <<"L", "U", "I", "S">>
APE_DIAZ == <<"D", "I", "A", "Z">>

\* a Python dict is the sequence of its items [clave, valor] in insertion
\* order
DictTiene(d, k) == \E i \in 1..Len(d) : d[i].clave = k
DictGet(d, k) == d[CHOOSE i \in 1..Len(d) : d[i].clave = k].valor
DictPoner(d, k, v) ==
    IF DictTiene(d, k)
    THEN [i \in 1..Len(d) |-> IF d[i].clave = k THEN [clave |-> k, valor |-> v] ELSE d[i]]
    ELSE Append(d, [clave |-> k, valor |-> v])

\* Fecha_Encuesta: None, pandas' NaT, or a Timestamp counted in days as
\* year * 10000 + month * 100 + day
FechaNone == [tipo |-> "None", v |-> 0]
NaT == [tipo |-> "NaT", v |-> 0]
Timestamp(n) == [tipo |-> "ts", v |-> n]

\* bool(f): None is false; a Timestamp is true, and so is NaT, which defines
\* no truth value of its own
Truthy(f) == f.tipo # "None"

\* a > b: every comparison with NaT is False
FechaMayor(a, b) == a.tipo = "ts" /\ b.tipo = "ts" /\ a.v > b.v

\* pd.to_datetime(texto, errors='coerce') on the texts of the survey files:
\* a date YYYY-MM-DD is parsed, a text that is no date gives NaT
to_datetime(texto) ==
    IF /\ Len(texto) = 10
       /\ \A d \in {1, 2, 3, 4, 6, 7, 9, 10} : IsDigitChar(texto[d])
       /\ texto[5] = "-" /\ texto[8] = "-"
       /\ DigitsValue(SubSeq(texto, 6, 7)) \in 1..12
       /\ DigitsValue(SubSeq(texto, 9, 10)) \in 1..28
    THEN Timestamp(DigitsValue(SubSeq(texto, 1, 4)) * 10000
                   + DigitsValue(SubSeq(texto, 6, 7)) * 100
                   + DigitsValue(SubSeq(texto, 9, 10)))
    ELSE NaT

\* lines 147-156
ParsearFechaEncuesta(celda) ==
    LET fecha_encuesta_str == Strip(StrCelda(celda)) IN
    IF fecha_encuesta_str # <<>> /\ fecha_encuesta_str # W_nan
    THEN to_datetime(fecha_encuesta_str)
    ELSE FechaNone

\* lines 142-143, 158-162
NombreCompleto(row) ==
    LET nombre == Strip(StrCelda(row.nombres))
        apellido == Strip(StrCelda(row.apellidos))
        documento == Strip(StrCelda(row.documento))
        nombre_completo == Strip(nombre \o SP \o apellido)
    IN IF nombre_completo = <<>> /\ documento # <<>>
       THEN W_Doc_ \o documento
       ELSE nombre_completo

ClaveUnicaTotal(nombre_completo, programa, anio) ==
    nombre_completo \o <<"_">> \o programa \o <<"_">> \o IntToStr(anio)

TipoPrograma(programa) ==
    LET u == StrUpper(programa) IN
    IF Contains(W_ESPECIALIZACION_TILDE, u) \/ Contains(W_ESPECIALIZACION, u)
    THEN W_ESPECIALIZACION_TILDE
    ELSE IF Contains(W_MAESTRIA_TILDE, u) \/ Contains(W_MAESTRIA, u)
    THEN W_MAESTRIA_TILDE
    ELSE IF Contains(W_DOCTORADO, u) THEN W_DOCTORADO
    ELSE W_PREGRADO

\* registro_nuevo, without the columns Información_Ocupacional and Cargo,
\* which are copied from the row and read nowhere
RegistroNuevo(archivo, row, prog_info) ==
    [Archivo |-> archivo,
     Documento |-> Strip(StrCelda(row.documento)),
     Nombre |-> NombreCompleto(row),
     Programa |-> prog_info.programa,
     Tipo_Programa |-> TipoPrograma(prog_info.programa),
     Anio_Grado |-> prog_info.anio,
     Fecha_Grado |-> prog_info.fecha_completa,
     Fecha_Encuesta |-> ParsearFechaEncuesta(row.fecha)]

\* lines 198-212
RegistrarUnico(unicos, clave_unica, registro_nuevo) ==
    IF ~DictTiene(unicos, clave_unica)
    THEN DictPoner(unicos, clave_unica, registro_nuevo)
    ELSE LET fecha_encuesta == registro_nuevo.Fecha_Encuesta
             fecha_existente == DictGet(unicos, clave_unica).Fecha_Encuesta
         IN IF Truthy(fecha_encuesta) /\ Truthy(fecha_existente)
            THEN IF FechaMayor(fecha_encuesta, fecha_existente)
                 THEN DictPoner(unicos, clave_unica, registro_nuevo)
                 ELSE unicos
            ELSE IF Truthy(fecha_encuesta) /\ ~Truthy(fecha_existente)
                 THEN DictPoner(unicos, clave_unica, registro_nuevo)
                 ELSE unicos

\* the loop of lines 168-214 over programas_info: st is [unicos, candidatos]
RECURSIVE ProcesarProgramas(_, _, _, _)
ProcesarProgramas(st, archivo, row, infos) ==
    IF infos = <<>> THEN st
    ELSE LET prog_info == Head(infos)
             registro_nuevo == RegistroNuevo(archivo, row, prog_info)
             clave_unica == ClaveUnicaTotal(registro_nuevo.Nombre, prog_info.programa,
                                            prog_info.anio)
         IN ProcesarProgramas(
                [unicos |-> RegistrarUnico(st.unicos, clave_unica, registro_nuevo),
                 candidatos |-> Append(st.candidatos, registro_nuevo)],
                archivo, row, Tail(infos))

\* the body of the loop of line 140
ProcesarFilaTotal(st, archivo, row) ==
    ProcesarProgramas(st, archivo, row, extraer_programas_y_fechas(row.programa))

FilaEncuesta(nom, ape, doc, prog, fecha) ==
    [nombres |-> nom, apellidos |-> ape, documento |-> doc, programa |-> prog,
     fecha |-> fecha]

\* the rows of the survey files
FilasEncuesta ==
    {FilaEncuesta(NOM_ANA_T, APE_RUIZ, CED_A, P_DERECHO_2021, f) :
        f \in {NaNCelda, F_2023, F_2024, F_SIN_DATO}}
    \cup {FilaEncuesta(NOM_ANA_T, APE_RUIZ, CED_A,
                       P_DERECHO_2021 \o SEP_PROGRAMAS \o P_MAESTRIA_2025, F_2024),
          FilaEncuesta(NOM_ANA_T, APE_RUIZ, CED_A, P_DERECHO_2020, F_2023),
          FilaEncuesta(NOM_LUIS_T, APE_DIAZ, CED_B, P_DOS_FECHAS, F_2023),
          FilaEncuesta(NOM_LUIS_T, APE_DIAZ, CED_B, NaNCelda, F_2023),
          FilaEncuesta(SP, SP, CED_A, P_DERECHO_2021, F_2023)}

\* archivo.name
NombreArchivo(a) == IF a = 1 THEN "2021-2025(M0).csv" ELSE "2021-2025(VE).csv"

\* estadisticas_año as created by line 63, without the year 2025
EstadisticasAnioHasta2024 ==
    <<[clave |-> 2021, valor |-> 0], [clave |-> 2022, valor |-> 0],
      [clave |-> 2023, valor |-> 0], [clave |-> 2024, valor |-> 0]>>

\* estadisticas_año as created by line 63
EstadisticasAnioInicial ==
    <<[clave |-> 2021, valor |-> 0], [clave |-> 2022, valor |-> 0],
      [clave |-> 2023, valor |-> 0], [clave |-> 2024, valor |-> 0],
      [clave |-> 2025, valor |-> 0]>>

InitTotal ==
    /\ pc_total = "archivo"
    /\ archivo_total = 1
    /\ filas_total = 0
    /\ registros_unicos = <<>>
    /\ candidatos_total = <<>>
    /\ indice_total = 0
    /\ resultados_detallados = <<>>
    /\ estadisticas_anio = EstadisticasAnioInicial
    /\ estadisticas_programa = <<>>
    /\ estadisticas_anio_programa = <<>>
    /\ IdleLimpios
    /\ IdleEgr
    /\ IdleLimpiar
    /\ IdleExtraer
    /\ IdleApp
    /\ IdleNuevos

\* the statement after the loop over the two files
SiguienteArchivoTotal ==
    /\ archivo_total' = archivo_total + 1
    /\ pc_total' = IF archivo_total = 2 THEN "agregar" ELSE "archivo"
    /\ indice_total' = IF archivo_total = 2 THEN 1 ELSE indice_total

\* lines 70-72: the file does not exist
ArchivoTotalNoEncontrado ==
    /\ pc_total = "archivo"
    /\ SiguienteArchivoTotal
    /\ UNCHANGED <<filas_total, registros_unicos, candidatos_total,
                   resultados_detallados, estadisticas_anio,
                   estadisticas_programa, estadisticas_anio_programa>>
    /\ UNCHANGED otros_total

\* lines 130-132: the file has no column PROGRAMA(S)
SinColumnaPrograma ==
    /\ pc_total = "archivo"
    /\ SiguienteArchivoTotal
    /\ UNCHANGED <<filas_total, registros_unicos, candidatos_total,
                   resultados_detallados, estadisticas_anio,
                   estadisticas_programa, estadisticas_anio_programa>>
    /\ UNCHANGED otros_total

\* lines 77-138: the file is read and its columns are found
AbrirArchivoTotal ==
    /\ pc_total = "archivo"
    /\ pc_total' = "filas"
    /\ UNCHANGED <<archivo_total, filas_total, registros_unicos, candidatos_total,
                   indice_total, resultados_detallados, estadisticas_anio,
                   estadisticas_programa, estadisticas_anio_programa>>
    /\ UNCHANGED otros_total

\* lines 140-214: one row of the file
LeerFilaTotal ==
    /\ pc_total = "filas"
    /\ filas_total < MaxEncuestas
    /\ \E row \in FilasEncuesta :
          LET st == ProcesarFilaTotal([unicos |-> registros_unicos,
                                       candidatos |-> candidatos_total],
                                      NombreArchivo(archivo_total), row)
          IN /\ registros_unicos' = st.unicos
             /\ candidatos_total' = st.candidatos
    /\ filas_total' = filas_total + 1
    /\ UNCHANGED <<pc_total, archivo_total, indice_total, resultados_detallados,
                   estadisticas_anio, estadisticas_programa,
                   estadisticas_anio_programa>>
    /\ UNCHANGED otros_total

\* line 216: the rows of the file are exhausted
FinArchivoTotal ==
    /\ pc_total = "filas"
    /\ SiguienteArchivoTotal
    /\ UNCHANGED <<filas_total, registros_unicos, candidatos_total,
                   resultados_detallados, estadisticas_anio,
                   estadisticas_programa, estadisticas_anio_programa>>
    /\ UNCHANGED otros_total

\* lines 218-222: an exception while the file is read or its rows are
\* processed; what the rows before it left in registros_unicos stays
ErrorArchivoTotal ==
    /\ pc_total = "filas"
    /\ SiguienteArchivoTotal
    /\ UNCHANGED <<filas_total, registros_unicos, candidatos_total,
                   resultados_detallados, estadisticas_anio,
                   estadisticas_programa, estadisticas_anio_programa>>
    /\ UNCHANGED otros_total

\* lines 238-239
ContarAnio(est, anio) ==
    IF DictTiene(est, anio) THEN DictPoner(est, anio, DictGet(est, anio) + 1) ELSE est

\* lines 242-244
ContarPrograma(est, programa) ==
    DictPoner(est, programa, (IF DictTiene(est, programa) THEN DictGet(est, programa) ELSE 0) + 1)

\* lines 247-255
ContarAnioPrograma(est, registro) ==
    LET clave == IntToStr(registro.Anio_Grado) \o <<"_">> \o registro.Programa
        previo == IF DictTiene(est, clave) THEN DictGet(est, clave)
                  ELSE [anio |-> registro.Anio_Grado, programa |-> registro.Programa,
                        tipo_programa |-> registro.Tipo_Programa, cantidad |-> 0]
    IN DictPoner(est, clave, [previo EXCEPT !.cantidad = @ + 1])

\* line 229: the record without its Fecha_Encuesta
RegistroLimpio(registro) ==
    [k \in DOMAIN registro \ {"Fecha_Encuesta"} |-> registro[k]]

\* lines 227-255: one item of registros_unicos
AgregarRegistro ==
    /\ pc_total = "agregar"
    /\ indice_total <= Len(registros_unicos)
    /\ LET registro == registros_unicos[indice_total].valor IN
          /\ resultados_detallados' = Append(resultados_detallados, RegistroLimpio(registro))
          /\ estadisticas_anio' = ContarAnio(estadisticas_anio, registro.Anio_Grado)
          /\ estadisticas_programa' = ContarPrograma(estadisticas_programa, registro.Programa)
          /\ estadisticas_anio_programa' =
                ContarAnioPrograma(estadisticas_anio_programa, registro)
    /\ indice_total' = indice_total + 1
    /\ UNCHANGED <<pc_total, archivo_total, filas_total, registros_unicos,
                   candidatos_total>>
    /\ UNCHANGED otros_total

\* line 257: the loop over registros_unicos is over
FinAgregacion ==
    /\ pc_total = "agregar"
    /\ indice_total > Len(registros_unicos)
    /\ pc_total' = "fin"
    /\ UNCHANGED <<archivo_total, filas_total, registros_unicos, candidatos_total,
                   indice_total, resultados_detallados, estadisticas_anio,
                   estadisticas_programa, estadisticas_anio_programa>>
    /\ UNCHANGED otros_total

NextTotal ==
    \/ ArchivoTotalNoEncontrado
    \/ SinColumnaPrograma
    \/ AbrirArchivoTotal
    \/ LeerFilaTotal
    \/ FinArchivoTotal
    \/ ErrorArchivoTotal
    \/ AgregarRegistro
    \/ FinAgregacion

SpecTotal == InitTotal /\ [][NextTotal]_vars

\* the candidates that share full name, program and graduation year with c
MismaClave(c) ==
    {i \in 1..Len(candidatos_total) :
        /\ candidatos_total[i].Nombre = c.Nombre
        /\ candidatos_total[i].Programa = c.Programa
        /\ candidatos_total[i].Anio_Grado = c.Anio_Grado}

\* the records kept for the full name, program and graduation year of c
Guardados(c) ==
    {i \in 1..Len(registros_unicos) :
        /\ registros_unicos[i].valor.Nombre = c.Nombre
        /\ registros_unicos[i].valor.Programa = c.Programa
        /\ registros_unicos[i].valor.Anio_Grado = c.Anio_Grado}

\* C3: of the survey rows that share full name, program and graduation
\* year, exactly one record is kept, it is one of them, and no other of them
\* has a survey date more recent than the one kept has.
C3_SeConservaLaEncuestaMasReciente ==
    \A n \in 1..Len(candidatos_total) :
       LET c == candidatos_total[n] IN
       /\ Cardinality(Guardados(c)) = 1
       /\ \A g \in Guardados(c) :
             LET guardado == registros_unicos[g].valor IN
             /\ \E i \in MismaClave(c) : candidatos_total[i] = guardado
             /\ \A i \in MismaClave(c) :
                   candidatos_total[i].Fecha_Encuesta.tipo = "ts" =>
                      /\ guardado.Fecha_Encuesta.tipo = "ts"
                      /\ guardado.Fecha_Encuesta.v >= candidatos_total[i].Fecha_Encuesta.v

RECURSIVE SumaValores(_)
SumaValores(d) == IF d = <<>> THEN 0 ELSE Head(d).valor + SumaValores(Tail(d))

RECURSIVE SumaCantidades(_)
SumaCantidades(d) == IF d = <<>> THEN 0 ELSE Head(d).valor.cantidad + SumaCantidades(Tail(d))

\* C8: once the aggregation is over, the per-year counts, the per-program
\* counts and the year-by-program counts each add up to the number of
\* records of resultados_detallados, which is the number of unique records.
C8_EstadisticasCuadran ==
    pc_total = "fin" =>
        /\ Len(resultados_detallados) = Len(registros_unicos)
        /\ SumaValores(estadisticas_anio) = Len(resultados_detallados)
        /\ SumaValores(estadisticas_programa) = Len(resultados_detallados)
        /\ SumaCantidades(estadisticas_anio_programa) = Len(resultados_detallados)

\* the run ended with one record of 2021 and one of 2025, out of three
\* candidate records of which two shared their key
C8_Witness ==
    /\ pc_total = "fin"
    /\ Len(resultados_detallados) = 2
    /\ Len(candidatos_total) = 3
    /\ DictGet(estadisticas_anio, 2021) = 1
    /\ DictGet(estadisticas_anio, 2025) = 1

----------------------------------------------------------------------------
(* app.py: analizar_cargos_directivos                                      *)

palabras_directivas ==
    <<<<"g", "e", "r", "e", "n", "t", "e">>,
      <<"d", "i", "r", "e", "c", "t", "o", "r">>,
      <<"j", "e", "f", "e">>,
      <<"c", "o", "o", "r", "d", "i", "n", "a", "d", "o", "r">>,
      <<"s", "u", "p", "e", "r", "v", "i", "s", "o", "r">>,
      <<"p", "r", "e", "s", "i", "d", "e", "n", "t", "e">>,
      <<"v", "i", "c", "e", "p", "r", "e", "s", "i", "d", "e", "n", "t", "e">>,
      <<"s", "u", "b", "d", "i", "r", "e", "c", "t", "o", "r">>,
      <<"s", "u", "b", "g", "e", "r", "e", "n", "t", "e">>,
      <<"j", "u", "e", "z">>,
      <<"r", "e", "c", "t", "o", "r">>,
      <<"j", "u", "r", "i", "d", "i", "c", "o">>,
      <<"l", "i", "d", "e", "r">>,
      <<"l", "i", "d", "e", "r">>,
      <<"a", "d", "m", "i", "n", "i", "s", "t", "r", "a", "d", "o", "r">>,
      <<"e", "j", "e", "c", "u", "t", "i", "v", "o">>,
      <<"m", "a", "n", "a", "g", "e", "r">>,
      <<"c", "h", "i", "e", "f">>>>

COL_NOMBRES == <<"N", "O", "M", "B", "R", "E", "S">>
COL_APELLIDOS == <<"A", "P", "E", "L", "L", "I", "D", "O", "S">>
COL_CARGO_DESEMPENA == <<"C", "a", "r", "g", "o", " ", "q", "u", "e", " ", "d", "e", "s", "e", "m", "p", "e", "ntilde", "a">>
COL_CARGO_ANTERIOR == <<"C", "a", "r", "g", "o", " ", "a", "n", "t", "e", "r", "i", "o", "r">>
COL_EMPRESA == <<"N", "o", "m", "b", "r", "e", " ", "d", "e", " ", "l", "a", " ", "e", "m", "p", "r", "e", "s", "a">>
COL_PROGRAMAS == <<"P", "R", "O", "G", "R", "A", "M", "A", "(", "S", ")">>
W_cargo == <<"c", "a", "r", "g", "o">>
W_desempe == <<"d", "e", "s", "e", "m", "p", "e">>
W_desempe_mal == <<"d", "e", "s", "e", "m", "p", "e", "U+FFFD", "a">>
W_desempena == <<"d", "e", "s", "e", "m", "p", "e", "n", "a">>
CARGO_GERENTE == <<"G", "e", "r", "e", "n", "t", "e", " ", "G", "e", "n", "e", "r", "a", "l">>
CARGO_ABOGADO == <<"A", "b", "o", "g", "a", "d", "o">>
CARGO_LIDER == <<"L", "I", "D", "E", "R", " ", "J", "U", "R", "I", "D", "I", "C", "O">>
W_NA == <<"N", "/", "A">>

variaciones_busqueda ==
    <<<<W_cargo, W_desempe>>, <<W_cargo, W_desempe_mal>>, <<W_cargo, W_desempena>>,
      <<W_cargo>>>>

\* all(parte in col_lower for parte in variacion)
CumpleVariacion(col, variacion) ==
    \A i \in 1..Len(variacion) : Contains(variacion[i], StrLower(col))

\* lines 82-90: <<the column>> that the first variation with a match finds
\* first, <<>> when no variation matches a column
RECURSIVE BuscarColumnaCargo(_, _)
BuscarColumnaCargo(columnas, variaciones) ==
    IF variaciones = <<>> THEN <<>>
    ELSE LET cumplen == {i \in 1..Len(columnas) : CumpleVariacion(columnas[i], Head(variaciones))}
         IN IF cumplen # {} THEN <<columnas[Min(cumplen)]>>
            ELSE BuscarColumnaCargo(columnas, Tail(variaciones))

\* row.get(col, defecto)
RowGet(columnas, row, col, defecto) ==
    LET donde == {i \in 1..Len(columnas) : columnas[i] = col} IN
    IF donde = {} THEN defecto ELSE row[Min(donde)]

\* line 98: the row is in df_valido
CargoValido(celda) == ~EsNa(celda) /\ celda # <<>>

\* line 110 on the cell as it is written, without lower()
EsDirectivoSinLower(celda) ==
    LET cargo == StrCelda(celda) IN
    \E i \in 1..Len(palabras_directivas) : Contains(palabras_directivas[i], cargo)

\* line 110
EsDirectivo(celda) ==
    LET cargo == StrLower(StrCelda(celda)) IN
    \E i \in 1..Len(palabras_directivas) : Contains(palabras_directivas[i], cargo)

\* lines 113-119
RegistroDirectivo(archivo, columnas, row, columna_cargo) ==
    [Archivo |-> archivo,
     Nombre |-> Strip(StrCelda(RowGet(columnas, row, COL_NOMBRES, <<>>)) \o SP
                      \o StrCelda(RowGet(columnas, row, COL_APELLIDOS, <<>>))),
     Cargo |-> RowGet(columnas, row, columna_cargo, <<>>),
     Programa |-> RowGet(columnas, row, COL_PROGRAMAS, W_NA),
     Empresa |-> RowGet(columnas, row, COL_EMPRESA, W_NA)]

\* lines 106-119: cargos_directivos after one row of df
TrasFilaApp(cargos, archivo, columnas, row) ==
    LET columna_cargo == BuscarColumnaCargo(columnas, variaciones_busqueda)[1]
        celda == RowGet(columnas, row, columna_cargo, <<>>)
    IN IF CargoValido(celda) /\ EsDirectivo(celda)
       THEN Append(cargos, RegistroDirectivo(archivo, columnas, row, columna_cargo))
       ELSE cargos

\* the header rows of the survey files
EncabezadosApp ==
    {<<COL_NOMBRES, COL_APELLIDOS, COL_CARGO_ANTERIOR, COL_CARGO_DESEMPENA>>,
     <<COL_NOMBRES, COL_CARGO_ANTERIOR>>,
     <<COL_NOMBRES, COL_APELLIDOS, COL_EMPRESA>>}

\* the cells of a column of the survey files
CeldasApp(col) ==
    IF col = COL_NOMBRES THEN {NOM_ANA_T}
    ELSE IF col = COL_APELLIDOS THEN {APE_RUIZ}
    ELSE IF col = COL_CARGO_ANTERIOR THEN {CARGO_GERENTE, CARGO_ABOGADO}
    ELSE IF col = COL_CARGO_DESEMPENA THEN {CARGO_LIDER, CARGO_ABOGADO, NaNCelda}
    ELSE {NaNCelda}

\* the rows under a header
FilasApp(columnas) ==
    {row \in [1..Len(columnas) -> UNION {CeldasApp(columnas[i]) : i \in 1..Len(columnas)}] :
        \A i \in 1..Len(columnas) : row[i] \in CeldasApp(columnas[i])}

\* s.capitalize()
Capitalize(s) ==
    [i \in 1..Len(s) |-> IF i = 1 THEN UpperChar(s[i]) ELSE LowerChar(s[i])]

\* lines 158-160: the keywords of one record counted into tipos_cargo
RECURSIVE ContarPalabras(_, _, _)
ContarPalabras(tipos, cargo_lower, palabras) ==
    IF palabras = <<>> THEN tipos
    ELSE LET palabra == Head(palabras)
             tipo == Capitalize(palabra)
             sig == IF Contains(palabra, cargo_lower)
                    THEN DictPoner(tipos, tipo,
                            (IF DictTiene(tipos, tipo) THEN DictGet(tipos, tipo) ELSE 0) + 1)
                    ELSE tipos
         IN ContarPalabras(sig, cargo_lower, Tail(palabras))

\* lines 155-160
RECURSIVE TiposCargo(_, _)
TiposCargo(tipos, totales) ==
    IF totales = <<>> THEN tipos
    ELSE TiposCargo(ContarPalabras(tipos, StrLower(Head(totales).Cargo), palabras_directivas),
                    Tail(totales))

\* lines 140-190: what the general summary shows and saves
ResumenDe(totales) ==
    IF totales # <<>>
    THEN [total |-> Len(totales), tipos_cargo |-> TiposCargo(<<>>, totales),
          guardados |-> totales]
    ELSE [total |-> 0, tipos_cargo |-> <<>>, guardados |-> <<>>]

\* resultados_totales after an exception that keeps what the file had found
TotalesTrasErrorConParciales(totales, cargos) == totales \o cargos

\* resultados_totales after an exception in the try block: line 127 is not
\* reached
TotalesTrasError(totales, cargos) == totales

InitApp ==
    /\ pc_app = "archivo"
    /\ archivo_app = 1
    /\ columnas_app = <<>>
    /\ filas_app = 0
    /\ cargos_directivos = <<>>
    /\ leidos_app = <<<<>>, <<>>>>
    /\ vistas_app = <<>>
    /\ desenlace_app = <<"pendiente", "pendiente">>
    /\ avisos_app = <<>>
    /\ resultados_totales = <<>>
    /\ resumen_app = <<>>
    /\ IdleLimpios
    /\ IdleEgr
    /\ IdleLimpiar
    /\ IdleExtraer
    /\ IdleTotal
    /\ IdleNuevos

\* the loop of line 34 goes on to the next file, or ends
SiguienteArchivoApp(desenlace) ==
    /\ desenlace_app' = [desenlace_app EXCEPT ![archivo_app] = desenlace]
    /\ archivo_app' = archivo_app + 1
    /\ pc_app' = IF archivo_app = 2 THEN "resumen" ELSE "archivo"

\* lines 35-37
ArchivoAppNoEncontrado ==
    /\ pc_app = "archivo"
    /\ avisos_app' = Append(avisos_app, [archivo |-> archivo_app, aviso |-> "no encontrado"])
    /\ SiguienteArchivoApp("no_encontrado")
    /\ UNCHANGED <<columnas_app, filas_app, cargos_directivos, leidos_app, vistas_app,
                   resultados_totales, resumen_app>>
    /\ UNCHANGED otros_app

\* lines 39-42: the file exists and the try block is entered
AbrirArchivoApp ==
    /\ pc_app = "archivo"
    /\ pc_app' = "leer"
    /\ UNCHANGED <<archivo_app, columnas_app, filas_app, cargos_directivos, leidos_app, vistas_app,
                   desenlace_app, avisos_app, resultados_totales, resumen_app>>
    /\ UNCHANGED otros_app

\* lines 45-104: the table is read and it has a cargo column
LeerEncabezadoApp ==
    /\ pc_app = "leer"
    /\ \E columnas \in EncabezadosApp :
          /\ BuscarColumnaCargo(columnas, variaciones_busqueda) # <<>>
          /\ columnas_app' = columnas
    /\ cargos_directivos' = <<>>
    /\ pc_app' = "filas"
    /\ UNCHANGED <<archivo_app, filas_app, leidos_app, vistas_app, desenlace_app, avisos_app,
                   resultados_totales, resumen_app>>
    /\ UNCHANGED otros_app

\* lines 92-95: the table is read and it has no cargo column
SinColumnaCargo ==
    /\ pc_app = "leer"
    /\ \E columnas \in EncabezadosApp :
          /\ BuscarColumnaCargo(columnas, variaciones_busqueda) = <<>>
          /\ columnas_app' = columnas
    /\ avisos_app' = Append(avisos_app, [archivo |-> archivo_app, aviso |-> "sin columna de cargo"])
    /\ SiguienteArchivoApp("sin_columna")
    /\ UNCHANGED <<filas_app, cargos_directivos, leidos_app, vistas_app, resultados_totales,
                   resumen_app>>
    /\ UNCHANGED otros_app

\* lines 106-119: one row of the table
LeerFilaApp ==
    /\ pc_app = "filas"
    /\ filas_app < MaxEncuestas
    /\ \E row \in FilasApp(columnas_app) :
          /\ cargos_directivos' = TrasFilaApp(cargos_directivos, NombreArchivo(archivo_app),
                                              columnas_app, row)
          /\ leidos_app' = [leidos_app EXCEPT ![archivo_app] =
                                TrasFilaApp(@, NombreArchivo(archivo_app), columnas_app, row)]
          /\ vistas_app' = Append(vistas_app,
                [archivo |-> archivo_app,
                 cargo |-> RowGet(columnas_app, row,
                              BuscarColumnaCargo(columnas_app, variaciones_busqueda)[1],
                              <<>>)])
    /\ filas_app' = filas_app + 1
    /\ UNCHANGED <<pc_app, archivo_app, columnas_app, desenlace_app, avisos_app,
                   resultados_totales, resumen_app>>
    /\ UNCHANGED otros_app

\* lines 121-135: the rows are exhausted
FinArchivoApp ==
    /\ pc_app = "filas"
    /\ resultados_totales' = resultados_totales \o cargos_directivos
    /\ SiguienteArchivoApp("ok")
    /\ UNCHANGED <<columnas_app, filas_app, cargos_directivos, leidos_app, vistas_app, avisos_app,
                   resumen_app>>
    /\ UNCHANGED otros_app

\* lines 137-138: an exception raised in the try block, while the table is
\* read or while its rows are processed
ErrorArchivoApp ==
    /\ pc_app \in {"leer", "filas"}
    /\ resultados_totales' = TotalesTrasError(resultados_totales, cargos_directivos)
    /\ avisos_app' = Append(avisos_app, [archivo |-> archivo_app, aviso |-> "error"])
    /\ SiguienteArchivoApp("error")
    /\ UNCHANGED <<columnas_app, filas_app, cargos_directivos, leidos_app, vistas_app, resumen_app>>
    /\ UNCHANGED otros_app

\* lines 140-194
ResumenGeneral ==
    /\ pc_app = "resumen"
    /\ resumen_app' = ResumenDe(resultados_totales)
    /\ pc_app' = "fin"
    /\ UNCHANGED <<archivo_app, columnas_app, filas_app, cargos_directivos, leidos_app, vistas_app,
                   desenlace_app, avisos_app, resultados_totales>>
    /\ UNCHANGED otros_app

NextApp ==
    \/ ArchivoAppNoEncontrado
    \/ AbrirArchivoApp
    \/ LeerEncabezadoApp
    \/ SinColumnaCargo
    \/ LeerFilaApp
    \/ FinArchivoApp
    \/ ErrorArchivoApp
    \/ ResumenGeneral

SpecApp == InitApp /\ [][NextApp]_vars

\* what a file adds to resultados_totales: its directive records if it was
\* processed to its end, nothing otherwise
AportaApp(a) == IF desenlace_app[a] = "ok" THEN leidos_app[a] ELSE <<>>

\* C10: whatever happened to each file (missing, no cargo column, exception,
\* processed), the run reaches the general summary with both files visited,
\* a message printed for each file that failed, no record from a file that
\* failed, and the summary made from the records of the files that succeeded.
C10_ErroresNoDetienenElAnalisis ==
    /\ pc_app \in {"resumen", "fin"} =>
          /\ \A a \in 1..2 : desenlace_app[a] # "pendiente"
          /\ \A a \in 1..2 : desenlace_app[a] # "ok" =>
                \E i \in 1..Len(avisos_app) : avisos_app[i].archivo = a
          /\ resultados_totales = AportaApp(1) \o AportaApp(2)
    /\ pc_app = "fin" =>
          /\ resumen_app.total = Len(AportaApp(1) \o AportaApp(2))
          /\ resumen_app.guardados = AportaApp(1) \o AportaApp(2)

\* the first file raised an exception after a directive record had been found
\* in it, the second file was processed, and the summary holds the records of
\* the second file only
C10_Witness ==
    /\ pc_app = "fin"
    /\ desenlace_app = <<"error", "ok">>
    /\ leidos_app[1] # <<>>
    /\ leidos_app[2] # <<>>
    /\ resumen_app.guardados = leidos_app[2]

----------------------------------------------------------------------------
(* egresados_posgrados.py: loading of the historical database              *)

\* C11: when the historical database cannot be loaded (it cannot be read, or
\* it has no identification column), the loader returns the empty set and
\* main prints its error and returns, with no postgraduate file processed
\* and no report written.
C11_SinBaseDeDatosMainRetorna ==
    bdd_archivo \in {"ilegible", "sin_columna"} =>
        /\ pc_egr = "error_bdd"
        /\ cedulas_egresados = {}
        /\ anio_egr = PrimerAnio
        /\ filas_egr = 0
        /\ todos_resultados = <<>>
        /\ reportes = <<>>

----------------------------------------------------------------------------
(* app.py, totalxano.py, verificar_valores.py: the search of the header    *)
(* row, the same code in the three scripts                                 *)

\* lines of a survey file
MaxLineas == 3

LINEA_TITULO == <<"U", "n", "i", "v", "e", "r", "s", "i", "d", "a", "d", " ", "L", "i", "b", "r", "e">>
LINEA_ENCABEZADO == <<"N", "o", ";", "D", "O", "C", "U", "M", "E", "N", "T", "O", ";", "N", "O", "M", "B", "R", "E", "S">>
LINEA_ENCABEZADO_2 == <<"N", "O", "M", "B", "R", "E", "S", ";", "D", "O", "C", "U", "M", "E", "N", "T", "O", ";", "C", "A", "R", "G", "O">>
LINEA_SOLO_DOCUMENTO == <<"D", "O", "C", "U", "M", "E", "N", "T", "O", ";", "C", "A", "R", "G", "O">>
LINEA_MINUSCULAS == <<"d", "o", "c", "u", "m", "e", "n", "t", "o", ";", "n", "o", "m", "b", "r", "e", "s">>
LINEA_DATOS == <<"1", ";", "1", "0", "0", "0", "0", "0", "1", ";", "A", "N", "A">>

\* the lines a survey file is made of
LineasEncuesta ==
    {LINEA_TITULO, LINEA_ENCABEZADO, LINEA_ENCABEZADO_2, LINEA_SOLO_DOCUMENTO,
     LINEA_MINUSCULAS, LINEA_DATOS}

\* the files: f.readlines() of a file of up to MaxLineas lines
ArchivosEncuesta == UNION {[1..n -> LineasEncuesta] : n \in 0..MaxLineas}

\* 'DOCUMENTO' in line and 'NOMBRES' in line
EsLineaDeEncabezado(line) == Contains(W_DOCUMENTO, line) /\ Contains(COL_NOMBRES, line)

\* one iteration of the loop that never breaks: a later match replaces an
\* earlier one
PasoEncabezadoSinBreak(hl, i, line) ==
    IF EsLineaDeEncabezado(line)
    THEN [header_line |-> i, sigue |-> TRUE]
    ELSE [header_line |-> hl, sigue |-> TRUE]

\* one iteration of the loop over enumerate(lines): the header_line after it
\* and whether the loop goes on
PasoEncabezado(hl, i, line) ==
    IF EsLineaDeEncabezado(line)
    THEN [header_line |-> i, sigue |-> FALSE]
    ELSE [header_line |-> hl, sigue |-> TRUE]

InitEncabezado ==
    /\ pc_enc = "buscar"
    /\ lineas \in ArchivosEncuesta
    /\ i_enc = 0
    /\ header_line = 0
    /\ IdleLimpios
    /\ IdleEgr
    /\ IdleLimpiar
    /\ IdleExtraer
    /\ IdleTotal
    /\ IdleApp
    /\ IdleProgramas
    /\ IdleTexto
    /\ IdleFinales

\* the loop looks at line i (0-based)
ExaminarLinea ==
    /\ pc_enc = "buscar"
    /\ i_enc < Len(lineas)
    /\ LET paso == PasoEncabezado(header_line, i_enc, lineas[i_enc + 1]) IN
          /\ header_line' = paso.header_line
          /\ pc_enc' = IF paso.sigue THEN "buscar" ELSE "leer"
    /\ i_enc' = i_enc + 1
    /\ UNCHANGED lineas
    /\ UNCHANGED otros_enc

\* the lines are exhausted without a match
FinLineas ==
    /\ pc_enc = "buscar"
    /\ i_enc >= Len(lineas)
    /\ pc_enc' = "leer"
    /\ UNCHANGED <<lineas, i_enc, header_line>>
    /\ UNCHANGED otros_enc

NextEncabezado == ExaminarLinea \/ FinLineas

SpecEncabezado == InitEncabezado /\ [][NextEncabezado]_vars

\* the 0-based indexes of the lines that hold both words
LineasConAmbas ==
    {k \in 0..(Len(lineas) - 1) :
        /\ \E a \in 0..(Len(lineas[k + 1]) - 9) :
              SubSeq(lineas[k + 1], a + 1, a + 9) = <<"D", "O", "C", "U", "M", "E", "N", "T", "O">>
        /\ \E b \in 0..(Len(lineas[k + 1]) - 7) :
              SubSeq(lineas[k + 1], b + 1, b + 7) = <<"N", "O", "M", "B", "R", "E", "S">>}

\* C12: when read_csv is reached, header_line is the index of the first line
\* of the file that holds both 'DOCUMENTO' and 'NOMBRES', whatever lines
\* follow it, and 0 when no line holds both.
C12_EncabezadoEsPrimeraCoincidencia ==
    pc_enc = "leer" =>
        header_line = (IF LineasConAmbas = {} THEN 0 ELSE Min(LineasConAmbas))

\* a file whose second and third lines both hold the two words
C12_Witness ==
    /\ pc_enc = "leer"
    /\ LineasConAmbas = {1, 2}
    /\ header_line = 1

----------------------------------------------------------------------------
(* programas.py: analizar_por_programas_y_años                             *)

COL_Archivo == <<"A", "r", "c", "h", "i", "v", "o">>
COL_Nombre == <<"N", "o", "m", "b", "r", "e">>
COL_Cargo == <<"C", "a", "r", "g", "o">>
COL_Programa == <<"P", "r", "o", "g", "r", "a", "m", "a">>
COL_Empresa == <<"E", "m", "p", "r", "e", "s", "a">>
NOM_ANA_RUIZ_T == <<"A", "N", "A", " ", "R", "U", "I", "Z">>
\* the cell of the column Archivo
NombreArchivoCelda == <<"M", "0">>

\* the header rows of output/cargos-directivos/cargos_directivos_analisis.csv
EncabezadosProg ==
    {<<COL_Archivo, COL_Nombre, COL_Cargo, COL_Programa, COL_Empresa>>,
     <<COL_Archivo, COL_Nombre, COL_Cargo>>,
     <<COL_Nombre, COL_Cargo, COL_PROGRAMAS>>}

\* 'Programa' in df.columns
TieneColumnaPrograma(columnas) == \E i \in 1..Len(columnas) : columnas[i] = COL_Programa

\* the rows of the file, under the header that app.py writes
FilasProg ==
    {<<NombreArchivoCelda, nombre, CARGO_GERENTE, programa, NaNCelda>> :
        nombre \in {NOM_ANA_RUIZ_T, NaNCelda},
        programa \in {P_DERECHO_2021, P_DERECHO_2021 \o SEP_PROGRAMAS \o P_MAESTRIA_2025,
                      P_DERECHO_2020, NaNCelda}}

\* lines 139-146
ContarAnioProgramaProg(est, anio, programa) ==
    LET clave == IntToStr(anio) \o <<"_">> \o programa
        previo == IF DictTiene(est, clave) THEN DictGet(est, clave)
                  ELSE [anio |-> anio, programa |-> programa, cantidad |-> 0]
    IN DictPoner(est, clave, [previo EXCEPT !.cantidad = @ + 1])

\* lines 98-148 over programas_info: st is [unicos, resultados, est_anio,
\* est_programa, est_anio_programa]
RECURSIVE ProcesarProgramasProg(_, _, _, _)
ProcesarProgramasProg(st, columnas, row, infos) ==
    IF infos = <<>> THEN st
    ELSE LET prog_info == Head(infos)
             nombre == RowGet(columnas, row, COL_Nombre, <<>>)
             clave_unica == StrCelda(nombre) \o <<"_">> \o prog_info.programa
                               \o <<"_">> \o IntToStr(prog_info.anio)
             registro == [Archivo |-> RowGet(columnas, row, COL_Archivo, W_NA),
                          Nombre |-> nombre,
                          Cargo |-> RowGet(columnas, row, COL_Cargo, <<>>),
                          Programa |-> prog_info.programa,
                          Tipo_Programa |-> TipoPrograma(prog_info.programa),
                          Anio_Grado |-> prog_info.anio,
                          Fecha_Grado |-> prog_info.fecha_completa,
                          Empresa |-> RowGet(columnas, row, COL_Empresa, W_NA)]
             sig == IF clave_unica \in st.unicos THEN st
                    ELSE [unicos |-> st.unicos \cup {clave_unica},
                          resultados |-> Append(st.resultados, registro),
                          est_anio |-> ContarAnio(st.est_anio, prog_info.anio),
                          est_programa |-> ContarPrograma(st.est_programa, prog_info.programa),
                          est_anio_programa |->
                             ContarAnioProgramaProg(st.est_anio_programa, prog_info.anio,
                                                    prog_info.programa)]
         IN ProcesarProgramasProg(sig, columnas, row, Tail(infos))

\* lines 90-148: the body of the loop over the rows
ProcesarFilaProgramas(st, columnas, row) ==
    ProcesarProgramasProg(st, columnas, row,
        extraer_programas_y_fechas(RowGet(columnas, row, COL_Programa, <<>>)))

\* an output file of the script, in output/cargos-directivos: its name, the
\* year in its name (0 if none) and its extension
ArchivoSalida(nombre, anio, ext) == [nombre |-> nombre, anio |-> anio, ext |-> ext]

\* lines 204-251: the files written for a non-empty resultados_detallados
ArchivosDeSalidaProg(resultados_det) ==
    {ArchivoSalida("cargos_directivos_por_programa_año", 0, "csv"),
     ArchivoSalida("cargos_directivos_por_programa_año", 0, "xlsx")}
    \cup {ArchivoSalida("cargos_directivos", resultados_det[i].Anio_Grado, "xlsx") :
             i \in 1..Len(resultados_det)}

\* where the function goes on after an exception if line 154 did not return
DespuesDeErrorProgSigue == "mostrar"

\* line 154: after an exception the function returns
DespuesDeErrorProg == "fin"

InitProgramas ==
    /\ pc_prog = "inicio"
    /\ desenlace_prog = "pendiente"
    /\ columnas_prog = <<>>
    /\ filas_prog = 0
    /\ unicos_prog = {}
    /\ resultados_prog = <<>>
    /\ est_anio_prog = EstadisticasAnioInicial
    /\ est_programa_prog = <<>>
    /\ est_anio_programa_prog = <<>>
    /\ escritos_prog = {}
    /\ IdleLimpios
    /\ IdleEgr
    /\ IdleLimpiar
    /\ IdleExtraer
    /\ IdleTotal
    /\ IdleApp
    /\ IdleEncabezado
    /\ IdleTexto
    /\ IdleFinales

\* lines 60-63: the file that app.py writes does not exist
CsvNoExiste ==
    /\ pc_prog = "inicio"
    /\ desenlace_prog' = "no_existe"
    /\ pc_prog' = "fin"
    /\ UNCHANGED <<columnas_prog, filas_prog, unicos_prog, resultados_prog,
                   est_anio_prog, est_programa_prog, est_anio_programa_prog,
                   escritos_prog>>
    /\ UNCHANGED otros_prog

\* lines 65-73: the file exists and the try block is entered
AbrirCsvProg ==
    /\ pc_prog = "inicio"
    /\ pc_prog' = "leer"
    /\ UNCHANGED <<desenlace_prog, columnas_prog, filas_prog, unicos_prog,
                   resultados_prog, est_anio_prog, est_programa_prog,
                   est_anio_programa_prog, escritos_prog>>
    /\ UNCHANGED otros_prog

\* lines 75-88: the file is read and has the column 'Programa'
LeerCsvProg ==
    /\ pc_prog = "leer"
    /\ \E columnas \in EncabezadosProg :
          /\ TieneColumnaPrograma(columnas)
          /\ columnas_prog' = columnas
    /\ unicos_prog' = {}
    /\ pc_prog' = "filas"
    /\ UNCHANGED <<desenlace_prog, filas_prog, resultados_prog, est_anio_prog,
                   est_programa_prog, est_anio_programa_prog, escritos_prog>>
    /\ UNCHANGED otros_prog

\* lines 82-84: the file is read and has no column 'Programa'
SinColumnaProgramaProg ==
    /\ pc_prog = "leer"
    /\ \E columnas \in EncabezadosProg :
          /\ ~TieneColumnaPrograma(columnas)
          /\ columnas_prog' = columnas
    /\ desenlace_prog' = "sin_columna"
    /\ pc_prog' = "fin"
    /\ UNCHANGED <<filas_prog, unicos_prog, resultados_prog, est_anio_prog,
                   est_programa_prog, est_anio_programa_prog, escritos_prog>>
    /\ UNCHANGED otros_prog

\* lines 90-148: one row of the file
ProcesarFilaProg ==
    /\ pc_prog = "filas"
    /\ filas_prog < MaxEncuestas
    /\ \E row \in FilasProg :
          LET st == ProcesarFilaProgramas(
                       [unicos |-> unicos_prog, resultados |-> resultados_prog,
                        est_anio |-> est_anio_prog, est_programa |-> est_programa_prog,
                        est_anio_programa |-> est_anio_programa_prog],
                       columnas_prog, row)
          IN /\ unicos_prog' = st.unicos
             /\ resultados_prog' = st.resultados
             /\ est_anio_prog' = st.est_anio
             /\ est_programa_prog' = st.est_programa
             /\ est_anio_programa_prog' = st.est_anio_programa
    /\ filas_prog' = filas_prog + 1
    /\ UNCHANGED <<pc_prog, desenlace_prog, columnas_prog, escritos_prog>>
    /\ UNCHANGED otros_prog

\* line 150: the rows are exhausted
FinFilasProg ==
    /\ pc_prog = "filas"
    /\ desenlace_prog' = "ok"
    /\ pc_prog' = "mostrar"
    /\ UNCHANGED <<columnas_prog, filas_prog, unicos_prog, resultados_prog,
                   est_anio_prog, est_programa_prog, est_anio_programa_prog,
                   escritos_prog>>
    /\ UNCHANGED otros_prog

\* lines 152-154: an exception raised in the try block, while the file is
\* read or while its rows are processed
ErrorProg ==
    /\ pc_prog \in {"leer", "filas"}
    /\ desenlace_prog' = "error"
    /\ pc_prog' = DespuesDeErrorProg
    /\ UNCHANGED <<columnas_prog, filas_prog, unicos_prog, resultados_prog,
                   est_anio_prog, est_programa_prog, est_anio_programa_prog,
                   escritos_prog>>
    /\ UNCHANGED otros_prog

\* lines 161-251: the results are shown and the output files are written
GuardarProg ==
    /\ pc_prog = "mostrar"
    /\ resultados_prog # <<>>
    /\ escritos_prog' = ArchivosDeSalidaProg(resultados_prog)
    /\ pc_prog' = "fin"
    /\ UNCHANGED <<desenlace_prog, columnas_prog, filas_prog, unicos_prog,
                   resultados_prog, est_anio_prog, est_programa_prog,
                   est_anio_programa_prog>>
    /\ UNCHANGED otros_prog

\* lines 253-254: there is no result and no file is written
SinResultadosProg ==
    /\ pc_prog = "mostrar"
    /\ resultados_prog = <<>>
    /\ pc_prog' = "fin"
    /\ UNCHANGED <<desenlace_prog, columnas_prog, filas_prog, unicos_prog,
                   resultados_prog, est_anio_prog, est_programa_prog,
                   est_anio_programa_prog, escritos_prog>>
    /\ UNCHANGED otros_prog

NextProgramas ==
    \/ CsvNoExiste
    \/ AbrirCsvProg
    \/ LeerCsvProg
    \/ SinColumnaProgramaProg
    \/ ProcesarFilaProg
    \/ FinFilasProg
    \/ ErrorProg
    \/ GuardarProg
    \/ SinResultadosProg

SpecProgramas == InitProgramas /\ [][NextProgramas]_vars

\* C13: when the file of app.py does not exist, or lacks the column
\* 'Programa', or an exception is raised while it is read or processed, the
\* function has returned and no output file has been written.
C13_SinEntradaNoSeEscribe ==
    desenlace_prog \in {"no_existe", "sin_columna", "error"} =>
        /\ pc_prog = "fin"
        /\ escritos_prog = {}

\* an exception after a row had given a result: the function returned and
\* wrote nothing
C13_Witness ==
    /\ desenlace_prog = "error"
    /\ resultados_prog # <<>>
    /\ pc_prog = "fin"
    /\ escritos_prog = {}

----------------------------------------------------------------------------
(* app.py: the classification of the rows                                  *)

\* the cargo cell of a row that was read
CeldaCargoVista(v) == v.cargo

\* the cell is not null, not empty and, in lower case, holds a keyword
TienePalabraDirectiva(celda) ==
    /\ celda # NaNCelda
    /\ celda # <<>>
    /\ \E k \in 1..Len(palabras_directivas) :
          \E d \in 0..(Len(celda) - Len(palabras_directivas[k])) :
             \A j \in 1..Len(palabras_directivas[k]) :
                LowerChar(celda[d + j]) = palabras_directivas[k][j]

\* the rows read from the files that were processed to their end, in order
RECURSIVE VistasProcesadas(_)
VistasProcesadas(vistas) ==
    IF vistas = <<>> THEN <<>>
    ELSE (IF desenlace_app[Head(vistas).archivo] = "ok" THEN <<Head(vistas)>> ELSE <<>>)
         \o VistasProcesadas(Tail(vistas))

\* the file and cargo cell of the rows among vistas that hold a keyword
RECURSIVE CargosConPalabra(_)
CargosConPalabra(vistas) ==
    IF vistas = <<>> THEN <<>>
    ELSE (IF TienePalabraDirectiva(CeldaCargoVista(Head(vistas)))
          THEN <<[Archivo |-> NombreArchivo(Head(vistas).archivo),
                  Cargo |-> CeldaCargoVista(Head(vistas))]>>
          ELSE <<>>)
         \o CargosConPalabra(Tail(vistas))

\* C14: once the files are processed, the result records are, in order, one
\* for each row read whose cargo cell is non-null, non-empty and holds in
\* lower case a directive keyword, and there is no record of any other row.
C14_DirectivoSiTienePalabraClave ==
    pc_app \in {"resumen", "fin"} =>
        [i \in 1..Len(resultados_totales) |->
            [Archivo |-> resultados_totales[i].Archivo,
             Cargo |-> resultados_totales[i].Cargo]]
        = CargosConPalabra(VistasProcesadas(vistas_app))

\* the run read a row with a keyword in upper case, a row with a cargo that
\* holds no keyword and a row with no cargo, and lists the first only
C14_Witness ==
    /\ pc_app = "fin"
    /\ Len(VistasProcesadas(vistas_app)) = 3
    /\ \E i, j, k \in 1..3 :
          /\ CeldaCargoVista(vistas_app[i]) = CARGO_LIDER
          /\ CeldaCargoVista(vistas_app[j]) = CARGO_ABOGADO
          /\ CeldaCargoVista(vistas_app[k]) = NaNCelda
    /\ Len(resultados_totales) = 1
    /\ resultados_totales[1].Cargo = CARGO_LIDER

----------------------------------------------------------------------------
(* The text functions of the 'Programa' line: extraer_codigo_programa and  *)
(* extraer_nombre_programa_limpio of egresados_posgrados.py,               *)
(* extraer_codigo_programa and limpiar_nombre_programa of                  *)
(* limpiar_csv_posgrados.py, applied to one cell text                      *)

\* leading tokens of a 'Programa' cell
COD_3210 == <<"3", "2", "1", "0">>
COD_321015 == <<"3", "2", "1", "0", "1", "5">>
COD_CON_GUION == <<"3", "4", "1", "0", "1", "-", "2">>

\* what follows the program name in a 'Programa' cell
COLA_RESOLUCION == <<" ", "R", "E", "S", "O", "L", "U", "C", "I", "O", "N", " ", "7">>
COLA_Resolucion_tilde == <<" ", "R", "e", "s", "o", "l", "u", "c", "i", "oacute", "n", " ", "7">>
COLA_resolucion == <<" ", "r", "e", "s", "o", "l", "u", "c", "i", "o", "n", " ", "7">>
COLA_PENSUM == <<" ", "P", "E", "N", "S", "U", "M", " ", "5">>
COLA_PENSUM_RESOLUCION == <<" ", "P", "E", "N", "S", "U", "M", " ", "5", " ", "R", "E", "S", "O", "L", "U", "C", "I", "O", "N", " ", "7">>
COLA_DOS_RESOLUCIONES == <<" ", "R", "E", "S", "O", "L", "U", "C", "I", "Oacute", "N", " ", "1", " ", "R", "E", "S", "O", "L", "U", "C", "I", "O", "N", " ", "2">>
COLA_RESOLUCION_PENSUM == <<" ", "R", "E", "S", "O", "L", "U", "C", "I", "O", "N", " ", "7", " ", "P", "E", "N", "S", "U", "M", " ", "5">>

\* the first tokens of the cell: a code, a number of another length, nothing
CabezasPrograma == {<<>>, COD_32101, COD_3210, COD_321015, COD_CON_GUION}

\* the name of the program: present or absent
NombresPrograma == {<<>>, W_PENAL}

ColasPrograma ==
    {<<>>, COLA_RESOLUCION, COLA_Resolucion_tilde, COLA_resolucion, COLA_PENSUM,
     COLA_PENSUM_RESOLUCION, COLA_DOS_RESOLUCIONES, COLA_RESOLUCION_PENSUM}

\* a cell made of a head, a name and a tail
TextoPrograma(cabeza, nombre, cola) ==
    (IF cabeza # <<>> /\ nombre # <<>> THEN cabeza \o SP \o nombre
     ELSE cabeza \o nombre) \o cola

\* the cell texts the functions are applied to; NaN is the null cell
TextosPrograma ==
    {TextoPrograma(c, n, k) : c \in CabezasPrograma, n \in NombresPrograma,
                              k \in ColasPrograma}
    \cup {NaN,
          SP \o COD_32101 \o SP \o SP \o W_PENAL \o SP,
          COD_32101 \o SP \o COD_32102 \o SP \o W_PENAL,
          W_PENAL \o SP \o COD_32101,
          W_PENAL \o SP \o COD_32101 \o COLA_RESOLUCION}

FuncionesTexto == {"codigo_egr", "codigo_limpiar", "nombre_egr", "nombre_limpiar"}

InitTexto ==
    /\ texto_entrada \in TextosPrograma
    /\ llamadas_texto = {}
    /\ codigo_egr = <<>>
    /\ codigo_limpiar = <<>>
    /\ nombre_egr = <<>>
    /\ nombre_limpiar = <<>>
    /\ IdleLimpios
    /\ IdleEgr
    /\ IdleLimpiar
    /\ IdleExtraer
    /\ IdleTotal
    /\ IdleApp
    /\ IdleEncabezado
    /\ IdleProgramas
    /\ IdleFinales

\* egresados_posgrados.extraer_codigo_programa(texto_entrada)
LlamarExtraerCodigoEgr ==
    /\ "codigo_egr" \notin llamadas_texto
    /\ codigo_egr' = extraer_codigo_programa(texto_entrada)
    /\ llamadas_texto' = llamadas_texto \cup {"codigo_egr"}
    /\ UNCHANGED <<texto_entrada, codigo_limpiar, nombre_egr, nombre_limpiar>>
    /\ UNCHANGED otros_texto

\* limpiar_csv_posgrados.extraer_codigo_programa(texto_entrada)
LlamarExtraerCodigoLimpiar ==
    /\ "codigo_limpiar" \notin llamadas_texto
    /\ codigo_limpiar' = extraer_codigo_programa_limpiar(texto_entrada)
    /\ llamadas_texto' = llamadas_texto \cup {"codigo_limpiar"}
    /\ UNCHANGED <<texto_entrada, codigo_egr, nombre_egr, nombre_limpiar>>
    /\ UNCHANGED otros_texto

\* egresados_posgrados.extraer_nombre_programa_limpio(texto_entrada)
LlamarExtraerNombreLimpio ==
    /\ "nombre_egr" \notin llamadas_texto
    /\ nombre_egr' = extraer_nombre_programa_limpio(texto_entrada)
    /\ llamadas_texto' = llamadas_texto \cup {"nombre_egr"}
    /\ UNCHANGED <<texto_entrada, codigo_egr, codigo_limpiar, nombre_limpiar>>
    /\ UNCHANGED otros_texto

\* limpiar_csv_posgrados.limpiar_nombre_programa(texto_entrada)
LlamarLimpiarNombre ==
    /\ "nombre_limpiar" \notin llamadas_texto
    /\ nombre_limpiar' = limpiar_nombre_programa(texto_entrada)
    /\ llamadas_texto' = llamadas_texto \cup {"nombre_limpiar"}
    /\ UNCHANGED <<texto_entrada, codigo_egr, codigo_limpiar, nombre_egr>>
    /\ UNCHANGED otros_texto

NextTexto ==
    \/ LlamarExtraerCodigoEgr
    \/ LlamarExtraerCodigoLimpiar
    \/ LlamarExtraerNombreLimpio
    \/ LlamarLimpiarNombre

SpecTexto == InitTexto /\ [][NextTexto]_vars

\* 'RESOLUCION' or 'RESOLUCIÓN' occurs in s in some letter case
MencionaResolucion(s) ==
    Contains(W_RESOLUCION, StrUpper(s)) \/ Contains(W_RESOLUCION_TILDE, StrUpper(s))

\* 'PENSUM' occurs in s in some letter case
MencionaPensum(s) == Contains(W_PENSUM, StrUpper(s))

\* 0-based index where the resolution text of s starts, in any letter case
InicioResolucion(s) ==
    Min({Find(StrUpper(s), v) : v \in {w \in {W_RESOLUCION, W_RESOLUCION_TILDE} :
                                          Contains(w, StrUpper(s))}})

\* some text precedes the resolution text of the cell
TextoAntesDeResolucion(texto) ==
    /\ texto # NaN
    /\ MencionaResolucion(Strip(texto))
    /\ InicioResolucion(Strip(texto)) > 0

\* C15: for every non-null cell in which some program text precedes the
\* resolution text, the result of extraer_nombre_programa_limpio holds no
\* 'RESOLUCION', 'RESOLUCIÓN' or 'PENSUM' in any letter case
C15_NombreSinResolucionNiPensum ==
    ("nombre_egr" \in llamadas_texto /\ TextoAntesDeResolucion(texto_entrada))
        => (~MencionaResolucion(nombre_egr) /\ ~MencionaPensum(nombre_egr))

\* the first token of s is a code of five digits
EmpiezaConCodigo(s) ==
    LET palabras == SplitWs(s) IN
    palabras # <<>> /\ IsDigitStr(palabras[1]) /\ Len(palabras[1]) = 5

\* the cell without its leading five-digit code
SinCodigoInicial(texto) ==
    LET palabras == SplitPrimera(Strip(texto)) IN
    IF Len(palabras) > 1 /\ EmpiezaConCodigo(palabras[1]) THEN palabras[2]
    ELSE Strip(texto)

\* some name text stands between the code and the resolution text of the cell
NombreAntesDeResolucion(texto) ==
    /\ texto # NaN
    /\ MencionaResolucion(SinCodigoInicial(texto))
    /\ InicioResolucion(SinCodigoInicial(texto)) > 0

\* C16: for every cell in which some name text precedes the resolution text,
\* the result of limpiar_nombre_programa does not start with a five-digit code
\* and holds no 'RESOLUCION' or 'RESOLUCIÓN' in any letter case; a null cell
\* gives ''
C16_NombreSinCodigoNiResolucion ==
    "nombre_limpiar" \in llamadas_texto =>
        /\ texto_entrada = NaN => nombre_limpiar = <<>>
        /\ NombreAntesDeResolucion(texto_entrada) =>
              /\ ~EmpiezaConCodigo(nombre_limpiar)
              /\ ~MencionaResolucion(nombre_limpiar)

\* s is a string of exactly five decimal digits
EsCodigoDeCincoDigitos(s) == Len(s) = 5 /\ IsDigitStr(s)

\* the cell begins with five digits followed by whitespace
EmpiezaConCodigoYEspacio(texto) ==
    /\ Len(texto) >= 6
    /\ IsDigitStr(SubSeq(texto, 1, 5))
    /\ IsSpaceChar(texto[6])

\* a result of one of the extraer_codigo_programa functions is as documented
CodigoComoSeDocumenta(texto, codigo) ==
    /\ codigo = None \/ EsCodigoDeCincoDigitos(codigo)
    /\ EmpiezaConCodigoYEspacio(texto) => codigo = SubSeq(texto, 1, 5)

\* C17: the result of either extraer_codigo_programa is None or a string of
\* exactly five decimal digits, and for a cell that begins with a five-digit
\* code followed by whitespace it is that code
C17_CodigoEsNoneOCincoDigitos ==
    /\ "codigo_egr" \in llamadas_texto
          => CodigoComoSeDocumenta(texto_entrada, codigo_egr)
    /\ "codigo_limpiar" \in llamadas_texto
          => CodigoComoSeDocumenta(texto_entrada, codigo_limpiar)

----------------------------------------------------------------------------
(* The two readers of a raw postgraduate file: procesar_archivo_posgrados   *)
(* of egresados_posgrados.py and of limpiar_csv_posgrados.py, each walking  *)
(* the rows of the same table with df.iterrows()                            *)

\* the rows a raw file is made of
FilasCrudas ==
    { FILA_PROGRAMA_PENAL, FILA_PROGRAMA_GUION, FILA_FACULTAD, FILA_ANA, FILA_LUIS,
      FILA_VACIA }

RECURSIVE ArchivosDeLargo(_)
ArchivosDeLargo(n) ==
    IF n = 0 THEN {<<>>}
    ELSE {Append(a, row) : a \in ArchivosDeLargo(n - 1), row \in FilasCrudas}

\* the tables that read_csv(header=None, dtype=str) gives for the raw file
ArchivosCrudos == UNION {ArchivosDeLargo(n) : n \in 0..MaxFilas}

\* año and cedulas_egresados handed to the reader of egresados_posgrados.py
AnioLectores == PrimerAnio
CedulasLectores == {CED_A}

\* the locals of the two functions before their row loops
EstadoEgrInicial ==
    [programa |-> None, resultados |-> <<>>, vistos |-> {}, candidatos |-> <<>>]
EstadoLimpiarInicial ==
    [facultad |-> <<>>, codigo |-> <<>>, nombre |-> <<>>, registros |-> <<>>,
     origen |-> <<>>]

InitLectores ==
    /\ df_crudo \in ArchivosCrudos
    /\ pc_lector_egr = "filas"
    /\ it_egr = 1
    /\ visitas_egr = <<>>
    /\ estado_egr = EstadoEgrInicial
    /\ retorno_egr = <<>>
    /\ pc_lector_limpiar = "filas"
    /\ it_limpiar = 1
    /\ visitas_limpiar = <<>>
    /\ estado_limpiar = EstadoLimpiarInicial
    /\ retorno_limpiar = <<>>
    /\ IdleAnteriores
    /\ IdleSalidas

\* the position of the iterator if every other row were passed over
SiguienteFilaSaltando(it) == it + 2

\* the position of df.iterrows() after it has handed out row it
SiguienteFila(it) == it + 1

\* egresados_posgrados.py 117-207: one iteration over the next row
PasoLectorEgr ==
    /\ pc_lector_egr = "filas"
    /\ it_egr <= Len(df_crudo)
    /\ estado_egr' = ProcesarFilaEgr(estado_egr, df_crudo[it_egr], AnioLectores,
                                     CedulasLectores)
    /\ visitas_egr' = Append(visitas_egr, it_egr)
    /\ it_egr' = SiguienteFila(it_egr)
    /\ UNCHANGED <<df_crudo, pc_lector_egr, retorno_egr, pc_lector_limpiar, it_limpiar,
                   visitas_limpiar, estado_limpiar, retorno_limpiar>>
    /\ UNCHANGED otros_lect

\* egresados_posgrados.py 209-214: the rows are exhausted, return resultados
FinLectorEgr ==
    /\ pc_lector_egr = "filas"
    /\ it_egr > Len(df_crudo)
    /\ retorno_egr' = estado_egr.resultados
    /\ pc_lector_egr' = "fin"
    /\ UNCHANGED <<df_crudo, it_egr, visitas_egr, estado_egr, pc_lector_limpiar,
                   it_limpiar, visitas_limpiar, estado_limpiar, retorno_limpiar>>
    /\ UNCHANGED otros_lect

\* limpiar_csv_posgrados.py 70-143: one iteration over the next row
PasoLectorLimpiar ==
    /\ pc_lector_limpiar = "filas"
    /\ it_limpiar <= Len(df_crudo)
    /\ estado_limpiar' = ProcesarFilaLimpiar(estado_limpiar, df_crudo[it_limpiar],
                                             AnioLectores, it_limpiar)
    /\ visitas_limpiar' = Append(visitas_limpiar, it_limpiar)
    /\ it_limpiar' = SiguienteFila(it_limpiar)
    /\ UNCHANGED <<df_crudo, pc_lector_limpiar, retorno_limpiar, pc_lector_egr, it_egr,
                   visitas_egr, estado_egr, retorno_egr>>
    /\ UNCHANGED otros_lect

\* limpiar_csv_posgrados.py 145-155: the rows are exhausted, return registros
FinLectorLimpiar ==
    /\ pc_lector_limpiar = "filas"
    /\ it_limpiar > Len(df_crudo)
    /\ retorno_limpiar' = estado_limpiar.registros
    /\ pc_lector_limpiar' = "fin"
    /\ UNCHANGED <<df_crudo, it_limpiar, visitas_limpiar, estado_limpiar, pc_lector_egr,
                   it_egr, visitas_egr, estado_egr, retorno_egr>>
    /\ UNCHANGED otros_lect

NextLectores ==
    \/ PasoLectorEgr
    \/ FinLectorEgr
    \/ PasoLectorLimpiar
    \/ FinLectorLimpiar

SpecLectores == InitLectores /\ [][NextLectores]_vars

\* the iterator of a reader moves on to the next row
AvanzaLectorEgr ==
    pc_lector_egr = "filas" /\ it_egr <= Len(df_crudo) /\ it_egr' = SiguienteFila(it_egr)
AvanzaLectorLimpiar ==
    pc_lector_limpiar = "filas" /\ it_limpiar <= Len(df_crudo) /\ it_limpiar' = SiguienteFila(it_limpiar)

\* each function is a sequential program: while it has a next statement it
\* executes it, be it the next iteration of the loop or the return
SpecLectoresJusto ==
    /\ SpecLectores
    /\ WF_it_egr(AvanzaLectorEgr)
    /\ WF_vars(FinLectorEgr)
    /\ WF_it_limpiar(AvanzaLectorLimpiar)
    /\ WF_vars(FinLectorLimpiar)

\* the rows visited so far are the first rows of the file, each once, in order
VisitasEnOrden(visitas) ==
    /\ Len(visitas) <= Len(df_crudo)
    /\ \A k \in 1..Len(visitas) : visitas[k] = k

\* a function that has returned has visited every row and returns its list
RecorridoCompleto ==
    /\ pc_lector_egr = "fin" =>
          Len(visitas_egr) = Len(df_crudo) /\ retorno_egr = estado_egr.resultados
    /\ pc_lector_limpiar = "fin" =>
          Len(visitas_limpiar) = Len(df_crudo)
          /\ retorno_limpiar = estado_limpiar.registros

CodigoComun(codigo) ==
    IF codigo = None \/ codigo = W_Sin_Codigo THEN <<>> ELSE codigo

\* the (cedula, program code) pairs of the records each reader returned
ParesEgr ==
    {<<retorno_egr[n].Identificacion, CodigoComun(retorno_egr[n].Programa_Codigo)>> :
        n \in 1..Len(retorno_egr)}
ParesLimpiar ==
    {<<retorno_limpiar[n].Cedula, CodigoComun(retorno_limpiar[n].Codigo_Programa)>> :
        n \in 1..Len(retorno_limpiar)}

AmbosLectoresTerminaron == pc_lector_egr = "fin" /\ pc_lector_limpiar = "fin"

\* C22: for every input file the two procesar_archivo_posgrados extract the
\* same set of (cedula, program code) pairs
C22_LectoresExtraenLosMismosPares ==
    AmbosLectoresTerminaron => ParesEgr = ParesLimpiar

-----------------------------------------------------------------------------
(* The output files of the scripts                                         *)

\* the scripts of the repository
Scripts ==
    {"app", "programas", "totalxano", "verificar_valores", "limpiar_csv_posgrados",
     "egresados_posgrados", "egresados_posgrados_limpios"}

\* the folders the scripts write to, relative to Path(__file__).parent, which
\* is the same folder for every script
DIR_CARGOS == "output/cargos-directivos"
DIR_TODOS == "output/todos-egresados"
DIR_EGRESADOS_POSGRADOS == "output/egresados-posgrados"
DIR_POSGRADOS_LIMPIOS == "data/posgrados_limpios"

\* the years a run can have data for
AniosSalidas == {PrimerAnio, UltimoAnio}

\* dir / nombre
Ruta(dir, nombre) == [dir |-> dir, nombre |-> nombre]

\* dir / f"{antes}{año}{despues}"
RutaDeAnio(dir, antes, anio, despues) ==
    [dir |-> dir, nombre |-> antes \o NatToStr(anio) \o despues]

\* app.py: the two files of the analysis, when there are results
RutasApp(anios) ==
    IF anios = {} THEN {}
    ELSE {Ruta(DIR_CARGOS, <<"cargos_directivos_analisis", ".csv">>),
          Ruta(DIR_CARGOS, <<"cargos_directivos_analisis", ".xlsx">>)}

\* programas.py: the two general files and one workbook per year with rows
RutasProgramas(anios) ==
    IF anios = {} THEN {}
    ELSE {Ruta(DIR_CARGOS, <<"cargos_directivos_por_programa_año", ".csv">>),
          Ruta(DIR_CARGOS, <<"cargos_directivos_por_programa_año", ".xlsx">>)}
         \cup {RutaDeAnio(DIR_CARGOS, <<"cargos_directivos_">>, a, <<".xlsx">>) : a \in anios}

\* totalxano.py: the two general files and one workbook per year with rows
RutasTotalxano(anios) ==
    IF anios = {} THEN {}
    ELSE {Ruta(DIR_TODOS, <<"todos_egresados_por_programa_año", ".csv">>),
          Ruta(DIR_TODOS, <<"todos_egresados_por_programa_año", ".xlsx">>)}
         \cup {RutaDeAnio(DIR_TODOS, <<"todos_egresados_">>, a, <<".xlsx">>) : a \in anios}

\* limpiar_csv_posgrados.py: one clean file per year with records and the
\* consolidated file
RutasLimpiar(anios) ==
    IF anios = {} THEN {}
    ELSE {Ruta(DIR_POSGRADOS_LIMPIOS, <<"Todos-los-años-consolidado", ".csv">>)}
         \cup {RutaDeAnio(DIR_POSGRADOS_LIMPIOS, <<>>, a, <<"-Posgrados-limpio", ".csv">>) :
                   a \in anios}

\* the reports of generar_reportes under carpeta_salida
RutasReportesPosgrados(dir, anios) ==
    IF anios = {} THEN {}
    ELSE {Ruta(dir, <<"estudiantes_posgrados_completo", ".csv">>),
          Ruta(dir, <<"consolidado_todos_los_años", ".csv">>),
          Ruta(dir, <<"resumen_general_por_año", ".csv">>),
          Ruta(dir, <<"egresados_posgrados_por_año", ".xlsx">>)}
         \cup {RutaDeAnio(dir, <<"egresados_posgrados_">>, a, <<".csv">>) : a \in anios}

\* egresados_posgrados.py
RutasEgresadosPosgrados(anios) == RutasReportesPosgrados(DIR_EGRESADOS_POSGRADOS, anios)

\* egresados_posgrados_limpios.py
RutasEgresadosPosgradosLimpios(anios) ==
    RutasReportesPosgrados(DIR_EGRESADOS_POSGRADOS, anios)

\* the files a run of a script writes, given the years it has data for
RutasDe(script, anios) ==
    CASE script = "app" -> RutasApp(anios)
      [] script = "programas" -> RutasProgramas(anios)
      [] script = "totalxano" -> RutasTotalxano(anios)
      [] script = "limpiar_csv_posgrados" -> RutasLimpiar(anios)
      [] script = "egresados_posgrados" -> RutasEgresadosPosgrados(anios)
      [] script = "egresados_posgrados_limpios" -> RutasEgresadosPosgradosLimpios(anios)
      [] OTHER -> {}

\* to_csv / to_excel: the file at each path is replaced by the script's
Escribir(archivos, script, rutas) ==
    {f \in archivos : f.ruta \notin rutas} \cup {[ruta |-> r, autor |-> script] : r \in rutas}

InitSalidas ==
    /\ ejecutados = {}
    /\ escrituras = {}
    /\ IdleAnteriores
    /\ IdleLectores

\* one run of a script
Ejecutar(script, anios) ==
    /\ ejecutados' = ejecutados \cup {script}
    /\ escrituras' = Escribir(escrituras, script, RutasDe(script, anios))
    /\ UNCHANGED otros_sal

EjecutarApp == \E anios \in SUBSET AniosSalidas : Ejecutar("app", anios)
EjecutarProgramas == \E anios \in SUBSET AniosSalidas : Ejecutar("programas", anios)
EjecutarTotalxano == \E anios \in SUBSET AniosSalidas : Ejecutar("totalxano", anios)
EjecutarVerificarValores == Ejecutar("verificar_valores", {})
EjecutarLimpiar ==
    \E anios \in SUBSET AniosSalidas : Ejecutar("limpiar_csv_posgrados", anios)
EjecutarEgresadosPosgrados ==
    \E anios \in SUBSET AniosSalidas : Ejecutar("egresados_posgrados", anios)
EjecutarEgresadosPosgradosLimpios ==
    \E anios \in SUBSET AniosSalidas : Ejecutar("egresados_posgrados_limpios", anios)

NextSalidas ==
    \/ EjecutarApp
    \/ EjecutarProgramas
    \/ EjecutarTotalxano
    \/ EjecutarVerificarValores
    \/ EjecutarLimpiar
    \/ EjecutarEgresadosPosgrados
    \/ EjecutarEgresadosPosgradosLimpios

SpecSalidas == InitSalidas /\ [][NextSalidas]_vars

\* a file that exists is, after the step, still the one its author wrote
NingunArchivoCambiaDeAutor ==
    \A antes \in escrituras : \A despues \in escrituras' :
        antes.ruta = despues.ruta => antes.autor = despues.autor

\* C23: no output path is written by two different scripts: running a script
\* never replaces a file that another script wrote
C23_NingunScriptSobrescribeAOtro == [][NingunArchivoCambiaDeAutor]_vars

====
